---- MODULE Spec2Model ----
(***************************************************************************)
(* Fleet lifecycle orchestration of proxmox-manager: the proxmox/vm and    *)
(* proxmox/node extension models and their shared library lib/proxmox.ts.  *)
(*                                                                         *)
(* Every handler is an async function; each await on the hypervisor (an    *)
(* HTTP call run through curl) is one step of the handler, at which the    *)
(* hypervisor answers 2xx, non-2xx or not at all (curl fails, which        *)
(* fetchWithCurl throws).  The hypervisor itself is the environment: it    *)
(* changes only through the requests the handlers send, and it has settled *)
(* a task by the time the poller stops polling it.                         *)
(***************************************************************************)
EXTENDS Integers, Sequences, FiniteSets, TLC

\* ---------------------------------------------------------------- bounds

\* Invocations made in one behaviour of the lifecycle specification, of the
\* start-only specification and of the auth specification.
MaxOps == 1
MaxStarts == 2
MaxAuthOps == 2
\* Task status queries answered "running" before the task is reported terminal.
MaxPolls == 2
\* Virtual machines the hypervisor holds.
MaxVms == 2
\* Hours the clock of the auth specification advances.
MaxHours == 3
\* Status queries a task that never stops is followed through.
MaxStuckPolls == 4
\* Interfaces in a guest-agent answer, and addresses per interface (SpecIp).
MaxIfaces == 2
MaxAddrs == 2

\* ------------------------------------------------------ program constants

AUTH_TTL_MS == 2 * 60 * 60 * 1000

\* lookup: getVmIpWithRetry(..., 15, 3); sync: getVmIpWithRetry(..., 5, 2)
LookupWaitSeconds == 15
LookupPollInterval == 3
SyncWaitSeconds == 5
SyncPollInterval == 2

\* ----------------------------------------------------------------- values

Procs == {1, 2}
SeqProcs == {1}

Names == {"alpha", "beta"}
Vmids == 100 .. (100 + MaxVms - 1)

NullIp == <<>>
NoVm == [vmid |-> 0, name |-> "", status |-> ""]
NoErr == [kind |-> "none", detail |-> <<>>]
NoSession == [ticket |-> 0, csrfToken |-> 0, source |-> "none"]
NoTaskResult == [success |-> FALSE, exitstatus |-> "", pollCount |-> 0]

HttpOutcomes == {"ok", "non2xx", "curl"}
ExitStatuses == {"OK", "VM is locked", "WARNINGS: 1"}

Max(a, b) == IF a >= b THEN a ELSE b

\* ------------------------------------------------- lib/proxmox.ts helpers

\* ip["ip-address"].startsWith("127.") on a dotted quad held as its octets
StartsWith127(addr) == Len(addr) > 0 /\ addr[1] = 127

\* the inner loop of getVmIpWithRetry: the first ipv4, non-127.* address
RECURSIVE FirstQualifying(_)
FirstQualifying(ips) ==
    IF ips = <<>> THEN NullIp
    ELSE IF Head(ips).type = "ipv4" /\ ~StartsWith127(Head(ips).addr)
         THEN Head(ips).addr
         ELSE FirstQualifying(Tail(ips))

\* the outer loop without the test of the interface name
RECURSIVE ScanInterfacesAll(_)
ScanInterfacesAll(ifaces) ==
    IF ifaces = <<>> THEN NullIp
    ELSE IF FirstQualifying(Head(ifaces).ips) # NullIp
         THEN FirstQualifying(Head(ifaces).ips)
         ELSE ScanInterfacesAll(Tail(ifaces))

\* the outer loop: interfaces in order, the one named "lo" skipped
RECURSIVE ScanInterfaces(_)
ScanInterfaces(ifaces) ==
    IF ifaces = <<>> THEN NullIp
    ELSE IF Head(ifaces).name = "lo" THEN ScanInterfaces(Tail(ifaces))
         ELSE IF FirstQualifying(Head(ifaces).ips) # NullIp
              THEN FirstQualifying(Head(ifaces).ips)
              ELSE ScanInterfaces(Tail(ifaces))

\* one iteration's try block: anything but a parsed 2xx answer yields nothing
AgentAnswerIp(o) == IF o.kind = "ok" THEN ScanInterfaces(o.ifaces) ELSE NullIp

\* cached.ticket / cached.csrfToken of a raw file (undefined, 0, when absent)
RawTicket(attrs) == IF "ticket" \in DOMAIN attrs THEN attrs.ticket ELSE 0
RawCsrf(attrs) == IF "csrfToken" \in DOMAIN attrs THEN attrs.csrfToken ELSE 0

\* waitForTask reporting success for every task that has stopped
TaskResultAlwaysOk(exitstatus, pollCount) ==
    [success |-> TRUE, exitstatus |-> exitstatus, pollCount |-> pollCount]

\* what waitForTask returns once a status query reported "stopped"
TaskResult(exitstatus, pollCount) ==
    [success |-> (exitstatus = "OK"), exitstatus |-> exitstatus, pollCount |-> pollCount]

\* tier 2 reading the lowest version instead of the highest
CacheUsableOldest(dir, t) == dir # <<>> /\ t - dir[1].createdAt < AUTH_TTL_MS

\* tier 2 without the age test
CacheUsableNoTtl(dir, t) == dir # <<>>

\* tier 2: the highest version of the auth directory, if younger than the TTL
CacheUsable(dir, t) == dir # <<>> /\ t - dir[Len(dir)].createdAt < AUTH_TTL_MS

\* tier 3 refusing only when both the username and the password are missing
CredentialsBothMissing(g) == ~g.username /\ ~g.password

\* tier 3: !username || !password
CredentialsMissing(g) == ~g.username \/ ~g.password

\* tier 1 taken as soon as one of the two values is supplied
ExplicitEither(g) == g.ticket # 0 \/ g.csrfToken # 0

\* tier 1: explicitTicket && explicitCsrf
ExplicitPair(g) == g.ticket # 0 /\ g.csrfToken # 0

\* resolveAuth(globalArgs, context, opts): g the global arguments (0 and FALSE
\* for what is absent), dir the versions of the auth directory, t Date.now(),
\* exch the ticket endpoint's answer if it is asked.  readCache tells whether
\* the auth directory was read, posted whether the ticket endpoint was asked.
ResolveAuth(g, dir, skipCache, t, exch) ==
    IF ExplicitPair(g)
    THEN [ok |-> TRUE, posted |-> FALSE, readCache |-> FALSE, err |-> NoErr,
          session |-> [ticket |-> g.ticket, csrfToken |-> g.csrfToken, source |-> "explicit"]]
    ELSE IF ~skipCache /\ CacheUsable(dir, t)
    THEN [ok |-> TRUE, posted |-> FALSE, readCache |-> TRUE, err |-> NoErr,
          session |-> [ticket |-> RawTicket(dir[Len(dir)].attrs),
                       csrfToken |-> RawCsrf(dir[Len(dir)].attrs), source |-> "cache"]]
    ELSE IF CredentialsMissing(g)
    THEN [ok |-> FALSE, posted |-> FALSE, readCache |-> ~skipCache, session |-> NoSession,
          err |-> [kind |-> "No auth available", detail |-> <<>>]]
    ELSE IF exch.kind = "curl"
    THEN [ok |-> FALSE, posted |-> TRUE, readCache |-> ~skipCache, session |-> NoSession,
          err |-> [kind |-> "curl failed", detail |-> <<>>]]
    ELSE IF exch.kind = "non2xx"
    THEN [ok |-> FALSE, posted |-> TRUE, readCache |-> ~skipCache, session |-> NoSession,
          err |-> [kind |-> "Authentication failed", detail |-> <<"non2xx">>]]
    ELSE [ok |-> TRUE, posted |-> TRUE, readCache |-> ~skipCache, err |-> NoErr,
          session |-> [ticket |-> exch.ticket, csrfToken |-> exch.csrfToken, source |-> "password"]]

\* ------------------------------------------------------------------ state

VARIABLES
    hv,       \* the hypervisor's VM list, in list order: [vmid, name, status]
    store,    \* .swamp/data: store[scope][instance] is the sequence of versions
    now,      \* Date.now(), in ms
    minted,   \* sessions the ticket endpoint has issued
    gargs,    \* gargs[scope]: the global arguments of the model definition
    probe,    \* one guest-agent answer and what the scan made of it (SpecIp)
    stuck,    \* the hypervisor's tasks never reach the phase "stopped"
    nInv,     \* invocations made
    prev,     \* what the previous invocation did
    inv       \* inv[p]: the invocation process p runs

vars == <<hv, store, now, minted, gargs, probe, stuck, nInv, prev, inv>>


\* ---------------------------------------------------------- invocations

Scopes == {"vm", "node"}
Instances == Names \cup {"auth", "node", "status"}

\* authOpts(): the model type, which names the directory resolveAuth reads
ScopeOf(op) == IF op \in {"auth", "status"} THEN "node" ELSE "vm"

\* ProxmoxConnectionArgs has ticket and csrfToken and no credentials;
\* the node model's GlobalArgs has credentials and no ticket.
VmGArgs == [ticket : {0, 1}, csrfToken : {0, 1}, username : {FALSE}, password : {FALSE}]
NodeGArgs == [ticket : {0}, csrfToken : {0}, username : BOOLEAN, password : BOOLEAN]
NoGArgs == [ticket |-> 0, csrfToken |-> 0, username |-> FALSE, password |-> FALSE]

Call(op, name, wait, interval, cfg, boot, disk) ==
    [op |-> op, vmName |-> name, waitSeconds |-> wait, pollInterval |-> interval,
     config |-> cfg, boot |-> boot, diskSize |-> disk]

NoCall == Call("none", "", 0, 0, {}, "", 0)

StartWaits == {0, 10}
StartPollInterval == 5
DiskSizes == {0, 32}
Configs == {{}, {<<"agent", "1">>}}
BootOrders == {"order=scsi0;net0"}

VmCalls ==
    {Call(op, n, 0, 0, {}, "", 0) : op \in {"lookup", "stop", "delete"}, n \in Names}
    \cup {Call("start", n, w, StartPollInterval, {}, "", 0) : n \in Names, w \in StartWaits}
    \cup {Call("create", n, 0, 0, {}, "", d) : n \in Names, d \in DiskSizes}
    \cup {Call("setBootOrder", n, 0, 0, {}, b, 0) : n \in Names, b \in BootOrders}
    \cup {Call("setConfig", n, 0, 0, c, "", 0) : n \in Names, c \in Configs}
    \cup {Call("sync", "", 0, 0, {}, "", 0)}

\* auth resolving like every other method, cache first
SkipCacheNever(op) == FALSE

\* opts.skipCache: set by the node model's auth method alone
SkipCache(op) == op = "auth"

\* the lifetime a method gives the version it writes: auth overrides the
\* resource's "infinite"
LifetimeOf(op) == IF op = "auth" THEN "2h" ELSE "infinite"

NewInv(c, g) ==
    [op |-> c.op, pc |-> IF c.op = "none" THEN "idle" ELSE "auth",
     vmName |-> c.vmName, g |-> g, skipCache |-> SkipCache(c.op),
     waitSeconds |-> c.waitSeconds, pollInterval |-> c.pollInterval,
     config |-> c.config, boot |-> c.boot, diskSize |-> c.diskSize,
     session |-> NoSession, cacheSeen |-> <<>>, cacheRead |-> FALSE, authAt |-> 0, vm |-> NoVm,
     nList |-> 0, nStart |-> 0, nStop |-> 0, nDelete |-> 0, nCreate |-> 0, nPut |-> 0,
     nTaskPoll |-> 0, nIpPoll |-> 0, nExchange |-> 0,
     task |-> "", exit |-> "", stopFail |-> "none",
     pollCount |-> 0, taskResult |-> NoTaskResult, lastPhase |-> "",
     ip |-> NullIp, ipReturned |-> "pending", ipFoundAt |-> 0, reported |-> {}, deadline |-> 0, wasStarted |-> FALSE,
     rawVms |-> <<>>, idx |-> 0,
     out |-> [vmid |-> 0], outName |-> "", written |-> <<>>, logs |-> <<>>,
     err |-> NoErr]

IdleInv == NewInv(NoCall, NoGArgs)

Failed(i, e) == [i EXCEPT !.pc = "failed", !.err = e]
Error(kind, detail) == [kind |-> kind, detail |-> detail]
ToWrite(i, name, attrs) == [i EXCEPT !.pc = "write", !.out = attrs, !.outName = name]
Log(i, msg) == [i EXCEPT !.logs = Append(@, msg)]

\* the hypervisor's status of vmid ("" when it holds no such VM)
HvStatus(list, vmid) ==
    IF \E k \in 1..Len(list) : list[k].vmid = vmid
    THEN list[CHOOSE k \in 1..Len(list) : list[k].vmid = vmid].status
    ELSE ""

\* a scan that takes every listed VM for a match
MatchesAny(list, name) == 1..Len(list)

\* the positions of the list whose VM has exactly the name
Matches(list, name) == {k \in 1..Len(list) : list[k].name = name}

Summary(i) ==
    [op |-> i.op, vmName |-> i.vmName, nStart |-> i.nStart,
     running |-> (HvStatus(hv, i.vm.vmid) = "running"),
     pc |-> i.pc, vmid |-> i.vm.vmid, nCreate |-> i.nCreate, nWritten |-> Len(i.written),
     left |-> Cardinality(Matches(hv, i.vmName))]


\* ------------------------------------------------------------ hypervisor

\* GET /cluster/nextid: the lowest free id
NextId(list) == CHOOSE v \in 100 .. (100 + Len(list)) :
                    /\ \A k \in 1..Len(list) : list[k].vmid # v
                    /\ \A w \in 100 .. (v - 1) : \E k \in 1..Len(list) : list[k].vmid = w

SetStatus(list, vmid, st) ==
    [k \in 1..Len(list) |-> IF list[k].vmid = vmid THEN [list[k] EXCEPT !.status = st] ELSE list[k]]

RECURSIVE Without(_, _)
Without(list, vmid) ==
    IF list = <<>> THEN <<>>
    ELSE IF Head(list).vmid = vmid THEN Without(Tail(list), vmid)
         ELSE <<Head(list)>> \o Without(Tail(list), vmid)

\* what a task that exits "OK" has done to the VM list
TaskEffect(list, i) ==
    CASE i.task = "start" -> SetStatus(list, i.vm.vmid, "running")
      [] i.task \in {"stop", "delstop"} -> SetStatus(list, i.vm.vmid, "stopped")
      [] i.task = "delete" -> Without(list, i.vm.vmid)
      [] i.task = "create" ->
            IF \E k \in 1..Len(list) : list[k].vmid = i.vm.vmid THEN list
            ELSE Append(list, [vmid |-> i.vm.vmid, name |-> i.vmName, status |-> "stopped"])
      [] OTHER -> list

\* guest-agent answers the lifecycle specification draws from
Eth(ips) == [name |-> "eth0", ips |-> ips]
Lo(ips) == [name |-> "lo", ips |-> ips]
V4(a) == [type |-> "ipv4", addr |-> a]
V6(a) == [type |-> "ipv6", addr |-> a]
Loopback4 == <<127, 0, 0, 1>>
Loopback6 == <<0, 0, 0, 0, 0, 0, 0, 1>>
AddrA == <<10, 0, 0, 50>>
AddrB == <<10, 0, 0, 51>>

SampleAnswers ==
    {[kind |-> "curl", ifaces |-> <<>>], [kind |-> "non2xx", ifaces |-> <<>>],
     [kind |-> "malformed", ifaces |-> <<>>],
     [kind |-> "ok", ifaces |-> <<>>],
     [kind |-> "ok", ifaces |-> <<Lo(<<V4(Loopback4), V4(AddrB)>>)>>],
     [kind |-> "ok", ifaces |-> <<Lo(<<V4(Loopback4)>>), Eth(<<V6(Loopback6), V4(AddrA)>>)>>],
     [kind |-> "ok", ifaces |-> <<Eth(<<V4(Loopback4)>>), Eth(<<V4(AddrB)>>)>>]}

\* ---------------------------------------------------------------- actions

Invoke(p, calls, maxOps) ==
    /\ inv[p].pc \in {"idle", "done", "failed"}
    /\ nInv < maxOps
    /\ \E c \in calls :
          /\ (c.op = "create") => (Len(hv) < MaxVms)
          /\ inv' = [inv EXCEPT ![p] = NewInv(c, gargs[ScopeOf(c.op)])]
    /\ nInv' = nInv + 1
    /\ prev' = Summary(inv[p])
    /\ UNCHANGED <<hv, store, now, minted, gargs, probe, stuck>>

\* where a handler goes once resolveAuth has returned
AfterAuth(i, session) ==
    LET j == [i EXCEPT !.session = session] IN
    CASE i.op = "create" -> [j EXCEPT !.pc = "nextid"]
      [] i.op = "auth" ->
            ToWrite(Log(j, "Authentication successful"), "node",
                    [ticket |-> session.ticket, csrfToken |-> session.csrfToken,
                     username |-> IF session.source = "password" THEN "root@pam" ELSE "undefined"])
      [] i.op = "status" -> [j EXCEPT !.pc = "nodeStatus"]
      [] OTHER -> [j EXCEPT !.pc = "list"]

AuthStep(p) ==
    /\ inv[p].pc = "auth"
    /\ \E k \in HttpOutcomes :
          LET i == inv[p]
              exch == [kind |-> k, ticket |-> 10 + minted, csrfToken |-> 10 + minted]
              r == ResolveAuth(i.g, store[ScopeOf(i.op)]["auth"], i.skipCache, now, exch)
              j == [i EXCEPT !.nExchange = @ + (IF r.posted THEN 1 ELSE 0),
                             !.cacheSeen = store[ScopeOf(i.op)]["auth"],
                             !.cacheRead = r.readCache, !.authAt = now]
          IN /\ inv' = [inv EXCEPT ![p] = IF r.ok THEN AfterAuth(j, r.session) ELSE Failed(j, r.err)]
             /\ minted' = IF r.ok /\ r.posted THEN minted + 1 ELSE minted
    /\ UNCHANGED <<hv, store, now, gargs, probe, stuck, nInv, prev>>


\* vms.find((v) => v.name === vmName): the first VM of the list with the name
FindVm(list, name) == list[CHOOSE k \in Matches(list, name) : \A m \in Matches(list, name) : k <= m]
NamesOf(list) == [k \in 1..Len(list) |-> list[k].name]

\* lookup bringing up a VM it finds stopped
LookupResolvedStarts(i, vm, t) ==
    IF vm.status = "running"
    THEN [i EXCEPT !.pc = "ipWait", !.deadline = t + LookupWaitSeconds * 1000,
                   !.pollInterval = LookupPollInterval]
    ELSE [i EXCEPT !.pc = "startReq"]

\* lookup after resolveVm: discovery only for a running VM
LookupResolved(i, vm, t) ==
    IF vm.status = "running"
    THEN [i EXCEPT !.pc = "ipWait", !.deadline = t + LookupWaitSeconds * 1000,
                   !.pollInterval = LookupPollInterval]
    ELSE ToWrite(i, vm.name, [vmid |-> vm.vmid, vmName |-> vm.name,
                              status |-> vm.status, ip |-> NullIp])

\* start sending its request unless the VM is running
StartResolvedUnlessRunning(i, vm, t) ==
    IF vm.status # "running"
    THEN [Log(i, "VM is stopped, starting") EXCEPT !.pc = "startReq"]
    ELSE [Log(i, "VM is already running") EXCEPT
             !.pc = "ipWait", !.deadline = t + i.waitSeconds * 1000]

\* start sending its request whatever the status
StartResolvedAlways(i, vm, t) ==
    [Log(i, "VM is stopped, starting") EXCEPT !.pc = "startReq"]

\* start after resolveVm: the start request only for a stopped VM
StartResolved(i, vm, t) ==
    IF vm.status = "stopped"
    THEN [Log(i, "VM is stopped, starting") EXCEPT !.pc = "startReq"]
    ELSE [Log(i, "VM is already running") EXCEPT
             !.pc = "ipWait", !.deadline = t + i.waitSeconds * 1000]

\* stop without the already-stopped shortcut
StopResolvedAlways(i, vm) == [i EXCEPT !.pc = "stopReq"]

\* stop after resolveVm: a stopped VM is recorded at once
StopResolved(i, vm) ==
    IF vm.status = "stopped"
    THEN ToWrite(Log(i, "VM is already stopped"), vm.name,
                 [vmid |-> vm.vmid, vmName |-> vm.name, status |-> "stopped",
                  ip |-> NullIp, success |-> TRUE])
    ELSE [i EXCEPT !.pc = "stopReq"]

\* delete after resolveVm: stop first unless stopped
DeleteResolved(i, vm) ==
    IF vm.status # "stopped"
    THEN [Log(i, "stopping first") EXCEPT !.pc = "delStopReq"]
    ELSE [i EXCEPT !.pc = "deleteReq"]

\* setConfig without the test for an empty map
ConfigResolvedUnchecked(i) == [i EXCEPT !.pc = "configPut"]

\* setConfig after resolveVm: no PUT without at least one pair
ConfigResolved(i) ==
    IF i.config = {}
    THEN Failed(i, Error("No config params provided", <<>>))
    ELSE [i EXCEPT !.pc = "configPut"]

\* setBootOrder and setConfig taking a running VM down before the PUT
AfterResolveStopsFirst(i0, vm, t) ==
    LET i == [i0 EXCEPT !.vm = vm] IN
    CASE i.op = "lookup" -> LookupResolved(i, vm, t)
      [] i.op = "start" -> StartResolved(i, vm, t)
      [] i.op = "stop" -> StopResolved(i, vm)
      [] i.op = "delete" -> DeleteResolved(i, vm)
      [] OTHER -> IF vm.status = "running" THEN [i EXCEPT !.pc = "stopReq"]
                  ELSE IF i.op = "setBootOrder" THEN [i EXCEPT !.pc = "configPut"]
                  ELSE ConfigResolved(i)

\* the handler after resolveVm returned vm, at time t
AfterResolve(i0, vm, t) ==
    LET i == [i0 EXCEPT !.vm = vm] IN
    CASE i.op = "lookup" -> LookupResolved(i, vm, t)
      [] i.op = "start" -> StartResolved(i, vm, t)
      [] i.op = "stop" -> StopResolved(i, vm)
      [] i.op = "delete" -> DeleteResolved(i, vm)
      [] i.op = "setBootOrder" -> [i EXCEPT !.pc = "configPut"]
      [] OTHER -> ConfigResolved(i)

\* sync's loop passing over the VMs that are not running
RECURSIVE SyncNextSkipsStopped(_, _, _)
SyncNextSkipsStopped(i, k, t) ==
    IF k > Len(i.rawVms)
    THEN [Log(i, "Complete") EXCEPT !.idx = k, !.pc = "done"]
    ELSE LET rv == i.rawVms[k]
             j == [i EXCEPT !.idx = k, !.vm = rv, !.ip = NullIp, !.nIpPoll = 0,
                            !.ipFoundAt = 0, !.reported = {}, !.ipReturned = "pending"]
         IN IF rv.status = "running"
            THEN [j EXCEPT !.pc = "ipWait", !.deadline = t + SyncWaitSeconds * 1000,
                           !.pollInterval = SyncPollInterval]
            ELSE SyncNextSkipsStopped(j, k + 1, t)

\* sync's loop asking the guest agent of every listed VM, whatever its status
SyncNextProbesAll(i, k, t) ==
    IF k > Len(i.rawVms)
    THEN [Log(i, "Complete") EXCEPT !.idx = k, !.pc = "done"]
    ELSE [i EXCEPT !.idx = k, !.vm = i.rawVms[k], !.ip = NullIp, !.nIpPoll = 0,
                   !.ipFoundAt = 0, !.reported = {}, !.ipReturned = "pending",
                   !.pc = "ipWait", !.deadline = t + SyncWaitSeconds * 1000,
                   !.pollInterval = SyncPollInterval]

\* sync's for loop at element k of the listed VMs
SyncNext(i, k, t) ==
    IF k > Len(i.rawVms)
    THEN [Log(i, "Complete") EXCEPT !.idx = k, !.pc = "done"]
    ELSE LET rv == i.rawVms[k]
             j == [i EXCEPT !.idx = k, !.vm = rv, !.ip = NullIp, !.nIpPoll = 0,
                            !.ipFoundAt = 0, !.reported = {}, !.ipReturned = "pending"]
         IN IF rv.status = "running"
            THEN [j EXCEPT !.pc = "ipWait", !.deadline = t + SyncWaitSeconds * 1000,
                           !.pollInterval = SyncPollInterval]
            ELSE ToWrite(j, rv.name, [vmid |-> rv.vmid, vmName |-> rv.name,
                                      status |-> rv.status, ip |-> NullIp])

\* resolveVm for the name-addressed operations, the list request of sync
\* resolveVm taking an absent VM of a delete for already deleted
ResolveVmAbsentDeleted(i, list, t) ==
    IF Matches(list, i.vmName) = {}
    THEN IF i.op = "delete"
         THEN ToWrite(i, i.vmName, [vmid |-> 0, vmName |-> i.vmName, status |-> "deleted",
                                    ip |-> NullIp, success |-> TRUE])
         ELSE Failed(i, Error("VM not found", NamesOf(list)))
    ELSE AfterResolve(i, FindVm(list, i.vmName), t)

\* resolveVm on the answered list: the first VM of that name, or the error
\* resolveVm taking the vmid from the latest stored version of the name when
\* there is one
ResolveVmStored(i, list, t) ==
    IF Matches(list, i.vmName) = {}
    THEN Failed(i, Error("VM not found", NamesOf(list)))
    ELSE LET vs == store["vm"][i.vmName]
             vm == FindVm(list, i.vmName)
         IN AfterResolve(i, IF vs = <<>> THEN vm ELSE [vm EXCEPT !.vmid = vs[Len(vs)].attrs.vmid], t)

ResolveVm(i, list, t) ==
    IF Matches(list, i.vmName) = {}
    THEN Failed(i, Error("VM not found", NamesOf(list)))
    ELSE AfterResolve(i, FindVm(list, i.vmName), t)

ListStep(p) ==
    /\ inv[p].pc = "list"
    /\ \E k \in HttpOutcomes :
          LET i == [inv[p] EXCEPT !.nList = @ + 1] IN
          inv' = [inv EXCEPT ![p] =
                    IF k = "curl" THEN Failed(i, Error("curl failed", <<>>))
                    ELSE IF k = "non2xx" THEN Failed(i, Error("Failed to list VMs", <<"non2xx">>))
                    ELSE IF i.op = "sync" THEN SyncNext([i EXCEPT !.rawVms = hv], 1, now)
                    ELSE ResolveVm(i, hv, now)]
    /\ UNCHANGED <<hv, store, now, minted, gargs, probe, stuck, nInv, prev>>

\* every handler recording what discovery returned, null included
IpDoneAlwaysRecords(i) ==
    ToWrite(i, i.vm.name, [vmid |-> i.vm.vmid, vmName |-> i.vm.name,
                           status |-> i.vm.status, ip |-> i.ip])

\* start recording the status resolveVm listed instead of "running"
IpDoneListedStatus(i) ==
    IF i.op = "start" /\ i.ip = NullIp
    THEN Failed(i, Error("guest agent did not return an IP", <<>>))
    ELSE ToWrite(i, i.vm.name,
                 IF i.op = "start"
                 THEN [vmid |-> i.vm.vmid, vmName |-> i.vm.name, status |-> i.vm.status,
                       ip |-> i.ip, wasStarted |-> i.wasStarted]
                 ELSE [vmid |-> i.vm.vmid, vmName |-> i.vm.name, status |-> i.vm.status,
                       ip |-> i.ip])

\* the handler once getVmIpWithRetry has returned i.ip
IpDone(i) ==
    CASE i.op = "start" ->
            IF i.ip = NullIp
            THEN Failed(i, Error("guest agent did not return an IP", <<>>))
            ELSE ToWrite(i, i.vm.name, [vmid |-> i.vm.vmid, vmName |-> i.vm.name,
                                        status |-> "running", ip |-> i.ip,
                                        wasStarted |-> i.wasStarted])
      [] OTHER -> ToWrite(i, i.vm.name, [vmid |-> i.vm.vmid, vmName |-> i.vm.name,
                                         status |-> i.vm.status, ip |-> i.ip])

\* what the guest agent reported: the addresses of an answer that are IPv4,
\* outside 127.* and on an interface other than "lo"
Reported(o) ==
    IF o.kind # "ok" THEN {}
    ELSE UNION {{o.ifaces[a].ips[b].addr :
                    b \in {c \in 1..Len(o.ifaces[a].ips) :
                              /\ o.ifaces[a].ips[c].type = "ipv4"
                              /\ o.ifaces[a].ips[c].addr[1] # 127}} :
                a \in {d \in 1..Len(o.ifaces) : o.ifaces[d].name # "lo"}}

Latencies == {0}

\* a loop that still asks at the deadline itself
UpToDeadline(t, deadline) == t <= deadline

\* the loop condition of getVmIpWithRetry: Date.now() < deadline
BeforeDeadline(t, deadline) == t < deadline

\* one iteration of getVmIpWithRetry's loop: the request, then the sleep
IpPoll(p) ==
    /\ inv[p].pc = "ipWait"
    /\ BeforeDeadline(now, inv[p].deadline)
    /\ \E o \in SampleAnswers, lat \in Latencies :
          LET i == inv[p]
              n == i.nIpPoll + 1
              a == AgentAnswerIp(o)
              first == i.ipFoundAt = 0 /\ Reported(o) # {}
              j == [i EXCEPT !.nIpPoll = n, !.ip = a,
                             !.ipFoundAt = IF first THEN n ELSE @,
                             !.reported = IF first THEN Reported(o) ELSE @]
          IN IF a # NullIp
             THEN /\ inv' = [inv EXCEPT ![p] = IpDone([j EXCEPT !.ipReturned = "address"])]
                  /\ now' = now + lat
             ELSE /\ inv' = [inv EXCEPT ![p] = j]
                  /\ now' = now + lat + i.pollInterval * 1000
    /\ UNCHANGED <<hv, store, minted, gargs, probe, stuck, nInv, prev>>

\* the loop condition fails: return null
IpTimeout(p) ==
    /\ inv[p].pc = "ipWait"
    /\ ~BeforeDeadline(now, inv[p].deadline)
    /\ inv' = [inv EXCEPT ![p] = IpDone([inv[p] EXCEPT !.ip = NullIp, !.ipReturned = "null"])]
    /\ UNCHANGED <<hv, store, now, minted, gargs, probe, stuck, nInv, prev>>


\* a refused request sent again
RequestedRetries(i, k, task, what) ==
    IF k = "curl" THEN Failed(i, Error("curl failed", <<>>))
    ELSE IF k = "non2xx" THEN i
    ELSE [i EXCEPT !.pc = "task", !.task = task, !.nTaskPoll = 0, !.exit = "", !.pollCount = 0,
                   !.taskResult = NoTaskResult, !.lastPhase = ""]

\* start going on to IP discovery as soon as its request is accepted
RequestedUnpolled(i, k, task, what) ==
    IF k = "curl" THEN Failed(i, Error("curl failed", <<>>))
    ELSE IF k = "non2xx" THEN Failed(i, Error(what, <<"non2xx">>))
    ELSE IF task = "start"
         THEN [i EXCEPT !.pc = "ipWait", !.task = task, !.nTaskPoll = 0, !.exit = "", !.pollCount = 0,
                   !.taskResult = NoTaskResult, !.lastPhase = "",
                        !.wasStarted = TRUE, !.deadline = i.authAt + i.waitSeconds * 1000]
         ELSE [i EXCEPT !.pc = "task", !.task = task, !.nTaskPoll = 0, !.exit = "", !.pollCount = 0,
                   !.taskResult = NoTaskResult, !.lastPhase = ""]

\* a mutating request that returns a task handle: count it, then the answer
Requested(i, k, task, what) ==
    IF k = "curl" THEN Failed(i, Error("curl failed", <<>>))
    ELSE IF k = "non2xx" THEN Failed(i, Error(what, <<"non2xx">>))
    ELSE [i EXCEPT !.pc = "task", !.task = task, !.nTaskPoll = 0, !.exit = "", !.pollCount = 0,
                   !.taskResult = NoTaskResult, !.lastPhase = ""]

StartRequest(p) ==
    /\ inv[p].pc = "startReq"
    /\ \E k \in HttpOutcomes :
          inv' = [inv EXCEPT ![p] =
                    Requested([inv[p] EXCEPT !.nStart = @ + 1], k, "start", "Failed to start VM")]
    /\ UNCHANGED <<hv, store, now, minted, gargs, probe, stuck, nInv, prev>>

StopRequest(p) ==
    /\ inv[p].pc = "stopReq"
    /\ \E k \in HttpOutcomes :
          inv' = [inv EXCEPT ![p] =
                    Requested([inv[p] EXCEPT !.nStop = @ + 1], k, "stop", "Failed to stop VM")]
    /\ UNCHANGED <<hv, store, now, minted, gargs, probe, stuck, nInv, prev>>

\* delete's stop with the non-2xx answer thrown out of the handler
DeleteStopAnsweredRaises(i, k) ==
    IF k = "curl"
    THEN [Log(i, "Stop failed (VM may already be stopped), continuing")
            EXCEPT !.pc = "deleteReq", !.stopFail = "curl"]
    ELSE IF k = "non2xx"
    THEN Failed([i EXCEPT !.stopFail = "non2xx"], Error("Failed to stop VM", <<"non2xx">>))
    ELSE [i EXCEPT !.pc = "task", !.task = "delstop", !.nTaskPoll = 0, !.exit = "", !.pollCount = 0,
                   !.taskResult = NoTaskResult, !.lastPhase = ""]

\* delete's stop inside try/catch: nothing it meets leaves the handler
DeleteStopAnswered(i, k) ==
    IF k = "curl"
    THEN [Log(i, "Stop failed (VM may already be stopped), continuing")
            EXCEPT !.pc = "deleteReq", !.stopFail = "curl"]
    ELSE IF k = "non2xx"
    THEN [Log(i, "VM may already be stopped, continuing to delete")
            EXCEPT !.pc = "deleteReq", !.stopFail = "non2xx"]
    ELSE [i EXCEPT !.pc = "task", !.task = "delstop", !.nTaskPoll = 0, !.exit = "", !.pollCount = 0,
                   !.taskResult = NoTaskResult, !.lastPhase = ""]

DeleteStopRequest(p) ==
    /\ inv[p].pc = "delStopReq"
    /\ \E k \in HttpOutcomes :
          inv' = [inv EXCEPT ![p] = DeleteStopAnswered([inv[p] EXCEPT !.nStop = @ + 1], k)]
    /\ UNCHANGED <<hv, store, now, minted, gargs, probe, stuck, nInv, prev>>

DeleteRequest(p) ==
    /\ inv[p].pc = "deleteReq"
    /\ \E k \in HttpOutcomes :
          inv' = [inv EXCEPT ![p] =
                    Requested([inv[p] EXCEPT !.nDelete = @ + 1], k, "delete", "Failed to delete VM")]
    /\ UNCHANGED <<hv, store, now, minted, gargs, probe, stuck, nInv, prev>>

\* create returning the VM that already carries the name instead of making one
NextIdAnsweredUnlessNamed(i, list) ==
    IF Matches(list, i.vmName) # {}
    THEN ToWrite([i EXCEPT !.vm = FindVm(list, i.vmName)], i.vmName,
                 [vmid |-> FindVm(list, i.vmName).vmid, vmName |-> i.vmName,
                  status |-> "stopped", ip |-> NullIp, success |-> TRUE])
    ELSE [i EXCEPT !.pc = "createReq",
                   !.vm = [vmid |-> NextId(list), name |-> i.vmName, status |-> ""]]

\* create once the next free id is known: no look at the names in use
NextIdAnswered(i, list) ==
    [i EXCEPT !.pc = "createReq",
              !.vm = [vmid |-> NextId(list), name |-> i.vmName, status |-> ""]]

\* create: GET /cluster/nextid
NextIdStep(p) ==
    /\ inv[p].pc = "nextid"
    /\ \E k \in HttpOutcomes :
          LET i == inv[p] IN
          inv' = [inv EXCEPT ![p] =
                    IF k = "curl" THEN Failed(i, Error("curl failed", <<>>))
                    ELSE IF k = "non2xx" THEN Failed(i, Error("Failed to get next VM ID", <<>>))
                    ELSE NextIdAnswered(i, hv)]
    /\ UNCHANGED <<hv, store, now, minted, gargs, probe, stuck, nInv, prev>>

\* the boot parameter putting the disk first when there is one
CreateBootDiskFirst(diskSize) == IF diskSize # 0 THEN "order=scsi0;net0" ELSE "order=net0"

\* the boot parameter of create's request body
CreateBoot(diskSize) == IF diskSize # 0 THEN "order=net0;scsi0" ELSE "order=net0"

CreateRequest(p) ==
    /\ inv[p].pc = "createReq"
    /\ \E k \in HttpOutcomes :
          inv' = [inv EXCEPT ![p] =
                    Requested([inv[p] EXCEPT !.nCreate = @ + 1, !.boot = CreateBoot(inv[p].diskSize)],
                              k, "create", "Failed to create VM")]
    /\ UNCHANGED <<hv, store, now, minted, gargs, probe, stuck, nInv, prev>>

\* setBootOrder and setConfig: PUT .../config
\* setBootOrder and setConfig carrying the listed status and a null ip along
ConfigRecordWithState(i) ==
    IF i.op = "setBootOrder"
    THEN [vmid |-> i.vm.vmid, vmName |-> i.vm.name, status |-> i.vm.status, ip |-> NullIp,
          boot |-> i.boot, success |-> TRUE]
    ELSE [vmid |-> i.vm.vmid, vmName |-> i.vm.name, status |-> i.vm.status, ip |-> NullIp,
          config |-> i.config, success |-> TRUE]

\* the attributes setBootOrder and setConfig write
ConfigRecord(i) ==
    IF i.op = "setBootOrder"
    THEN [vmid |-> i.vm.vmid, vmName |-> i.vm.name, boot |-> i.boot, success |-> TRUE]
    ELSE [vmid |-> i.vm.vmid, vmName |-> i.vm.name, config |-> i.config, success |-> TRUE]

ConfigPut(p) ==
    /\ inv[p].pc = "configPut"
    /\ \E k \in HttpOutcomes :
          LET i == [inv[p] EXCEPT !.nPut = @ + 1] IN
          inv' = [inv EXCEPT ![p] =
                    IF k = "curl" THEN Failed(i, Error("curl failed", <<>>))
                    ELSE IF k = "non2xx"
                    THEN Failed(i, Error(IF i.op = "setBootOrder" THEN "Failed to set boot order"
                                         ELSE "Failed to set config", <<"non2xx">>))
                    ELSE ToWrite(i, i.vm.name, ConfigRecord(i))]
    /\ UNCHANGED <<hv, store, now, minted, gargs, probe, stuck, nInv, prev>>


\* start leaving wasStarted as it was
StartTaskDoneForgets(i, e, t) ==
    IF ~i.taskResult.success THEN Failed(i, Error("VM start failed", <<e>>))
    ELSE [Log(i, "started successfully") EXCEPT
             !.pc = "ipWait", !.deadline = t + i.waitSeconds * 1000]

\* start recording a failed task the way stop does, and returning
StartTaskDoneRecordsFailure(i, e, t) ==
    IF ~i.taskResult.success
    THEN ToWrite(Log(i, "start failed"), i.vm.name,
                 [vmid |-> i.vm.vmid, vmName |-> i.vm.name, status |-> "stopped",
                  ip |-> NullIp, wasStarted |-> FALSE])
    ELSE [Log(i, "started successfully") EXCEPT
             !.pc = "ipWait", !.wasStarted = TRUE, !.deadline = t + i.waitSeconds * 1000]

\* start once waitForTask returned exit status e
StartTaskDone(i, e, t) ==
    IF ~i.taskResult.success THEN Failed(i, Error("VM start failed", <<e>>))
    ELSE [Log(i, "started successfully") EXCEPT
             !.wasStarted = TRUE, !.pc = "ipWait", !.deadline = t + i.waitSeconds * 1000]

\* stop recording success whatever the task's exit status
StopTaskDoneAssumesSuccess(i, e) ==
    ToWrite(Log(i, "stopped successfully"),
            i.vm.name, [vmid |-> i.vm.vmid, vmName |-> i.vm.name, status |-> "stopped",
                        ip |-> NullIp, success |-> TRUE])

\* stop once waitForTask returned
StopTaskDone(i, e) ==
    ToWrite(Log(i, IF i.taskResult.success THEN "stopped successfully" ELSE "stop failed"),
            i.vm.name, [vmid |-> i.vm.vmid, vmName |-> i.vm.name, status |-> "stopped",
                        ip |-> NullIp, success |-> i.taskResult.success])

\* create recording the VM whatever the task's exit status
CreateTaskDoneIgnoresExit(i, e) ==
    ToWrite(Log(i, "created successfully"), i.vmName,
            [vmid |-> i.vm.vmid, vmName |-> i.vmName, status |-> "stopped",
             ip |-> NullIp, success |-> TRUE])

\* create recording the new VM as running
CreateTaskDoneRecordsRunning(i, e) ==
    IF ~i.taskResult.success THEN Failed(i, Error("VM creation failed", <<e>>))
    ELSE ToWrite(Log(i, "created successfully"), i.vmName,
                 [vmid |-> i.vm.vmid, vmName |-> i.vmName, status |-> "running",
                  ip |-> NullIp, success |-> TRUE])

\* create once waitForTask returned
CreateTaskDone(i, e) ==
    IF ~i.taskResult.success THEN Failed(i, Error("VM creation failed", <<e>>))
    ELSE ToWrite(Log(i, "created successfully"), i.vmName,
                 [vmid |-> i.vm.vmid, vmName |-> i.vmName, status |-> "stopped",
                  ip |-> NullIp, success |-> TRUE])

\* delete once waitForTask returned for the delete task
DeleteTaskDone(i, e) ==
    ToWrite(Log(i, IF i.taskResult.success THEN "deleted successfully" ELSE "deletion failed"),
            i.vm.name, [vmid |-> i.vm.vmid, vmName |-> i.vm.name, status |-> "deleted",
                        ip |-> NullIp, success |-> i.taskResult.success])

\* delete once waitForTask returned for its stop task: logged, nothing more
DeleteStopTaskDone(i, e) ==
    [Log(i, "stop: exitstatus") EXCEPT
        !.pc = "deleteReq", !.stopFail = IF e = "OK" THEN "none" ELSE "exit"]

\* the handler once waitForTask returned {success: e === "OK", exitstatus: e}
TaskDone(i, e, t) ==
    CASE i.task = "start" -> StartTaskDone(i, e, t)
      [] i.task = "stop" -> StopTaskDone(i, e)
      [] i.task = "create" -> CreateTaskDone(i, e)
      [] i.task = "delete" -> DeleteTaskDone(i, e)
      [] OTHER -> DeleteStopTaskDone(i, e)

\* a poller that takes a non-2xx answer for "not yet" and asks again
TaskThrewRetries(i, k) ==
    IF k = "non2xx" THEN i
    ELSE IF i.task = "delstop"
    THEN [Log(i, "Stop failed (VM may already be stopped), continuing")
            EXCEPT !.pc = "deleteReq", !.stopFail = "poll"]
    ELSE Failed(i, Error("curl failed", <<>>))

\* the handler when waitForTask threw
TaskThrew(i, k) ==
    IF i.task = "delstop"
    THEN [Log(i, "Stop failed (VM may already be stopped), continuing")
            EXCEPT !.pc = "deleteReq", !.stopFail = "poll"]
    ELSE Failed(i, IF k = "curl" THEN Error("curl failed", <<>>)
                   ELSE Error("Task status check failed", <<"non2xx">>))

\* a poller that gives up on a task still running at its third query
StillRunningGivesUp(i) ==
    IF i.pollCount >= 3
    THEN Failed([i EXCEPT !.lastPhase = "running"], Error("Task timed out", <<>>))
    ELSE [i EXCEPT !.lastPhase = "running"]

\* waitForTask on an answer whose phase is not "stopped": sleep, loop
StillRunning(i) == [i EXCEPT !.lastPhase = "running"]

\* one iteration of waitForTask's loop: pollCount++, the status query, then
\* the sleep when the task is still running, the return when it has stopped,
\* the throw when the query failed
TaskPoll(p) ==
    /\ inv[p].pc = "task"
    /\ LET followed == ~(stuck /\ inv[p].nTaskPoll >= MaxStuckPolls)
           i == IF followed
                THEN [inv[p] EXCEPT !.pollCount = @ + 1, !.nTaskPoll = @ + 1]
                ELSE inv[p]
       IN
       \/ /\ stuck \/ inv[p].nTaskPoll < MaxPolls
          /\ inv' = [inv EXCEPT ![p] = StillRunning(i)]
          /\ now' = IF followed THEN now + 1000 ELSE now
          /\ hv' = hv
       \/ \E e \in ExitStatuses :
             /\ ~stuck
             /\ inv' = [inv EXCEPT ![p] =
                          TaskDone([i EXCEPT !.exit = e, !.lastPhase = "stopped",
                                             !.taskResult = TaskResult(e, i.pollCount)], e, now)]
             /\ hv' = IF e = "OK" THEN TaskEffect(hv, i) ELSE hv
             /\ now' = now
       \/ \E k \in {"non2xx", "curl"}, settled \in BOOLEAN :
             /\ inv' = [inv EXCEPT ![p] = TaskThrew([i EXCEPT !.lastPhase = k], k)]
             /\ hv' = IF settled THEN TaskEffect(hv, i) ELSE hv
             /\ now' = now
    /\ UNCHANGED <<store, minted, gargs, probe, stuck, nInv, prev>>

\* node status: GET /nodes/{node}/status
NodeStatusStep(p) ==
    /\ inv[p].pc = "nodeStatus"
    /\ \E k \in HttpOutcomes :
          LET i == inv[p] IN
          inv' = [inv EXCEPT ![p] =
                    IF k = "curl" THEN Failed(i, Error("curl failed", <<>>))
                    ELSE IF k = "non2xx" THEN Failed(i, Error("Failed to fetch node status", <<"non2xx">>))
                    ELSE ToWrite(i, "status", [uptime |-> 1])]
    /\ UNCHANGED <<hv, store, now, minted, gargs, probe, stuck, nInv, prev>>

\* a version written in pieces: the new ticket beside the anti-CSRF token of
\* the version before
Torn(vs, ver) ==
    IF vs # <<>> /\ "csrfToken" \in DOMAIN ver.attrs /\ "csrfToken" \in DOMAIN vs[Len(vs)].attrs
    THEN Append(vs, [ver EXCEPT !.attrs.csrfToken = vs[Len(vs)].attrs.csrfToken])
    ELSE Append(vs, ver)

\* the new version taking the place of the latest one
Overwritten(vs, ver) == IF vs = <<>> THEN <<ver>> ELSE [vs EXCEPT ![Len(vs)] = ver]

\* the new version landing below the ones the directory holds
Prepended(vs, ver) == <<ver>> \o vs

\* the data directory of a resource name after a write: one more version
Appended(vs, ver) == Append(vs, ver)

\* the attributes as the raw file holds them: JSON has no undefined, a
\* property with that value is left out
JsonWritten(attrs) ==
    [f \in {g \in DOMAIN attrs : ~(g = "username" /\ attrs[g] = "undefined")} |-> attrs[f]]

\* reading the latest version of a resource name: the highest version's raw
\* file, parsed
ReadLatest(vs) == IF vs = <<>> THEN [found |-> FALSE, attrs |-> [vmid |-> 0]]
                  ELSE [found |-> TRUE, attrs |-> vs[Len(vs)].attrs]

\* a handler that throws on a failed task only after it has recorded it
AfterWriteThenThrows(j, t) ==
    IF j.op = "sync" THEN SyncNext(j, j.idx + 1, t)
    ELSE IF j.op \in {"stop", "delete"} /\ ~j.out.success
         THEN Failed(j, Error("task failed", <<j.exit>>))
         ELSE [j EXCEPT !.pc = "done"]

\* the handler once writeResource has returned: sync goes on with its loop,
\* every other handler returns the handle
AfterWrite(j, t) ==
    IF j.op = "sync" THEN SyncNext(j, j.idx + 1, t) ELSE [j EXCEPT !.pc = "done"]

\* context.writeResource(kind, name, attributes): append a version
Write(p) ==
    /\ inv[p].pc = "write"
    /\ LET i == inv[p]
           sc == ScopeOf(i.op)
           ver == [attrs |-> JsonWritten(i.out), createdAt |-> now, lifetime |-> LifetimeOf(i.op)]
           j == [i EXCEPT !.written = Append(@, [name |-> i.outName,
                                                 version |-> Len(store[sc][i.outName]) + 1,
                                                 attrs |-> i.out])]
       IN /\ store' = [store EXCEPT ![sc][i.outName] = Appended(@, ver)]
          /\ inv' = [inv EXCEPT ![p] = AfterWrite(j, now)]
    /\ UNCHANGED <<hv, now, minted, gargs, probe, stuck, nInv, prev>>

\* ------------------------------------------------------- specifications

Vm(id, name, st) == [vmid |-> id, name |-> name, status |-> st]

InitialFleets ==
    {<<>>, <<Vm(100, "alpha", "paused")>>, <<Vm(100, "alpha", "stopped"), Vm(101, "alpha", "running")>>}
    \cup {<<Vm(100, "alpha", s), Vm(101, "beta", "running")>> : s \in {"stopped", "running"}}

EmptyStore == [sc \in Scopes |-> [n \in Instances |-> <<>>]]
CachedSession(createdAt) ==
    [attrs |-> [ticket |-> 2, csrfToken |-> 2], createdAt |-> createdAt, lifetime |-> "2h"]

\* the auth set-ups of the lifecycle specification: an explicit session, a
\* cached one, neither
VmAuthSetups ==
    {[g |-> [NoGArgs EXCEPT !.ticket = 1, !.csrfToken = 1], dir |-> <<>>],
     [g |-> [NoGArgs EXCEPT !.ticket = 1], dir |-> <<CachedSession(0)>>],
     [g |-> NoGArgs, dir |-> <<>>]}

NoProbe == [asked |-> FALSE, answer |-> [kind |-> "curl", ifaces |-> <<>>],
            result |-> NullIp, done |-> FALSE]

InitCommon ==
    /\ now = 0
    /\ probe = NoProbe
    /\ minted = 0
    /\ nInv = 0
    /\ inv = [p \in Procs |-> IdleInv]
    /\ prev = [op |-> "none", vmName |-> "", nStart |-> 0, running |-> FALSE,
               pc |-> "idle", vmid |-> 0, nCreate |-> 0, nWritten |-> 0, left |-> 0]

Init ==
    /\ hv \in InitialFleets
    /\ \E a \in VmAuthSetups :
          /\ gargs = [sc \in Scopes |-> IF sc = "vm" THEN a.g ELSE NoGArgs]
          /\ store = [EmptyStore EXCEPT !["vm"]["auth"] = a.dir]
    /\ stuck = FALSE
    /\ InitCommon

Next ==
    \E p \in SeqProcs :
       \/ Invoke(p, VmCalls, MaxOps)
       \/ AuthStep(p)
       \/ ListStep(p)
       \/ StartRequest(p)
       \/ StopRequest(p)
       \/ DeleteStopRequest(p)
       \/ DeleteRequest(p)
       \/ NextIdStep(p)
       \/ CreateRequest(p)
       \/ ConfigPut(p)
       \/ TaskPoll(p)
       \/ IpPoll(p)
       \/ IpTimeout(p)
       \/ Write(p)

Spec == Init /\ [][Next]_vars


\* start invoked repeatedly, nothing else
StartCalls == {c \in VmCalls : c.op = "start"}

NextStart ==
    \E p \in SeqProcs :
       \/ Invoke(p, StartCalls, MaxStarts)
       \/ AuthStep(p)
       \/ ListStep(p)
       \/ StartRequest(p)
       \/ TaskPoll(p)
       \/ IpPoll(p)
       \/ IpTimeout(p)
       \/ Write(p)

SpecStart == Init /\ [][NextStart]_vars

\* two invocations one after the other on the VMs named "alpha", the session
\* supplied explicitly
MaxPairOps == 2

PairCalls == {c \in VmCalls : c.vmName \in {"alpha", ""} /\ c.waitSeconds = 0 /\ c.diskSize = 0}

PairFleets == {<<>>, <<Vm(100, "alpha", "stopped")>>, <<Vm(100, "alpha", "running")>>}

InitPair ==
    /\ hv \in PairFleets
    /\ gargs = [sc \in Scopes |-> IF sc = "vm" THEN [NoGArgs EXCEPT !.ticket = 1, !.csrfToken = 1]
                                  ELSE NoGArgs]
    /\ store = EmptyStore
    /\ stuck = FALSE
    /\ InitCommon

NextPair ==
    \E p \in SeqProcs :
       \/ Invoke(p, PairCalls, MaxPairOps)
       \/ AuthStep(p)
       \/ ListStep(p)
       \/ StartRequest(p)
       \/ StopRequest(p)
       \/ DeleteStopRequest(p)
       \/ DeleteRequest(p)
       \/ NextIdStep(p)
       \/ CreateRequest(p)
       \/ ConfigPut(p)
       \/ TaskPoll(p)
       \/ IpPoll(p)
       \/ IpTimeout(p)
       \/ Write(p)

SpecPair == InitPair /\ [][NextPair]_vars

\* session resolution over the states of the auth directory and the clock:
\* node auth (skipCache), node status and a vm operation (implicit)
HourMs == 60 * 60 * 1000

AuthCalls == {Call("auth", "", 0, 0, {}, "", 0), Call("status", "", 0, 0, {}, "", 0),
              Call("stop", "alpha", 0, 0, {}, "", 0)}

AuthDirs == {<<>>, <<CachedSession(0)>>, <<CachedSession(0 - AUTH_TTL_MS), CachedSession(0)>>}

InitAuth ==
    /\ hv = <<Vm(100, "alpha", "stopped")>>
    /\ \E gv \in VmGArgs, g \in NodeGArgs :
          gargs = [sc \in Scopes |-> IF sc = "vm" THEN gv ELSE g]
    /\ \E d1, d2 \in AuthDirs :
          store = [EmptyStore EXCEPT !["vm"]["auth"] = d1, !["node"]["auth"] = d2]
    /\ stuck = FALSE
    /\ InitCommon

\* time passes between invocations
Tick ==
    /\ \A p \in Procs : inv[p].pc \in {"idle", "done", "failed"}
    /\ now < MaxHours * HourMs
    /\ now' = now + HourMs
    /\ UNCHANGED <<hv, store, minted, gargs, probe, stuck, nInv, prev, inv>>

NextAuth ==
    \/ Tick
    \/ \E p \in SeqProcs :
          \/ Invoke(p, AuthCalls, MaxAuthOps)
          \/ AuthStep(p)
          \/ ListStep(p)
          \/ NodeStatusStep(p)
          \/ Write(p)

SpecAuth == InitAuth /\ [][NextAuth]_vars

\* the scan of getVmIpWithRetry over every guest-agent answer within the bounds
SeqsUpTo(S, n) == UNION {[1..m -> S] : m \in 0..n}
IpEntries == {V4(Loopback4), V4(AddrA), V6(Loopback6)}
AllIfaces == [name : {"lo", "eth0"}, ips : SeqsUpTo(IpEntries, MaxAddrs)]
AllAnswers ==
    {[kind |-> "curl", ifaces |-> <<>>], [kind |-> "non2xx", ifaces |-> <<>>]}
    \cup [kind : {"ok"}, ifaces : SeqsUpTo(AllIfaces, MaxIfaces)]

InitIp ==
    /\ hv = <<>>
    /\ gargs = [sc \in Scopes |-> NoGArgs]
    /\ store = EmptyStore
    /\ stuck = FALSE
    /\ InitCommon

Ask ==
    /\ ~probe.asked
    /\ \E o \in AllAnswers : probe' = [NoProbe EXCEPT !.asked = TRUE, !.answer = o]
    /\ UNCHANGED <<hv, store, now, minted, gargs, stuck, nInv, prev, inv>>

Scan ==
    /\ probe.asked
    /\ ~probe.done
    /\ probe' = [probe EXCEPT !.result = AgentAnswerIp(probe.answer), !.done = TRUE]
    /\ UNCHANGED <<hv, store, now, minted, gargs, stuck, nInv, prev, inv>>

NextIp == Ask \/ Scan

SpecIp == InitIp /\ [][NextIp]_vars

\* two start invocations for one name running at the same time: each handler
\* is its own async call, and their awaits interleave freely (waitSeconds 0:
\* discovery sends no query and start ends on its null)
MaxConcOps == 2

ConcCalls == {c \in StartCalls : c.vmName = "alpha" /\ c.waitSeconds = 0}

ConcFleets == {<<Vm(100, "alpha", "stopped")>>, <<Vm(100, "alpha", "paused")>>}

InitConc ==
    /\ hv \in ConcFleets
    /\ gargs = [sc \in Scopes |-> IF sc = "vm" THEN [NoGArgs EXCEPT !.ticket = 1, !.csrfToken = 1]
                                  ELSE NoGArgs]
    /\ store = EmptyStore
    /\ stuck = FALSE
    /\ InitCommon

NextConc ==
    \E p \in Procs :
       \/ Invoke(p, ConcCalls, MaxConcOps)
       \/ AuthStep(p)
       \/ ListStep(p)
       \/ StartRequest(p)
       \/ TaskPoll(p)
       \/ IpTimeout(p)

SpecConc == InitConc /\ [][NextConc]_vars

\* a name whose VM was deleted and made again under another vmid, the old
\* vmid now another VM's: the versions delete and create wrote, the second
\* one missing when the VM was made outside this model
DeletedVersion(vmid, name) ==
    [attrs |-> [vmid |-> vmid, vmName |-> name, status |-> "deleted", ip |-> NullIp, success |-> TRUE],
     createdAt |-> 0, lifetime |-> "infinite"]
CreatedVersion(vmid, name) ==
    [attrs |-> [vmid |-> vmid, vmName |-> name, status |-> "stopped", ip |-> NullIp, success |-> TRUE],
     createdAt |-> 0, lifetime |-> "infinite"]

ReuseStores == {<<DeletedVersion(100, "alpha")>>,
                <<DeletedVersion(100, "alpha"), CreatedVersion(101, "alpha")>>}
ReuseFleets == {<<Vm(100, "beta", "running"), Vm(101, "alpha", s)>> : s \in {"stopped", "running"}}
ReuseCalls == {c \in VmCalls : c.vmName = "alpha" /\ c.op \notin {"create", "sync"}}

InitReuse ==
    /\ hv \in ReuseFleets
    /\ gargs = [sc \in Scopes |-> IF sc = "vm" THEN [NoGArgs EXCEPT !.ticket = 1, !.csrfToken = 1]
                                  ELSE NoGArgs]
    /\ \E d \in ReuseStores : store = [EmptyStore EXCEPT !["vm"]["alpha"] = d]
    /\ stuck = FALSE
    /\ InitCommon

NextReuse ==
    \E p \in SeqProcs :
       \/ Invoke(p, ReuseCalls, MaxOps)
       \/ AuthStep(p)
       \/ ListStep(p)
       \/ StartRequest(p)
       \/ StopRequest(p)
       \/ DeleteStopRequest(p)
       \/ DeleteRequest(p)
       \/ ConfigPut(p)
       \/ TaskPoll(p)
       \/ IpPoll(p)
       \/ IpTimeout(p)
       \/ Write(p)

SpecReuse == InitReuse /\ [][NextReuse]_vars

\* a start of alpha that waits for the address, and the configuration
\* operations on the same name, one after another
FollowCalls == {c \in VmCalls : /\ c.vmName = "alpha"
                                /\ \/ c.op = "start" /\ c.waitSeconds # 0
                                   \/ c.op = "setBootOrder"
                                   \/ c.op = "setConfig" /\ c.config # {}}

InitFollow ==
    /\ hv \in {<<Vm(100, "alpha", s)>> : s \in {"stopped", "running"}}
    /\ gargs = [sc \in Scopes |-> IF sc = "vm" THEN [NoGArgs EXCEPT !.ticket = 1, !.csrfToken = 1]
                                  ELSE NoGArgs]
    /\ store = EmptyStore
    /\ stuck = FALSE
    /\ InitCommon

NextFollow ==
    \E p \in SeqProcs :
       \/ Invoke(p, FollowCalls, MaxPairOps)
       \/ AuthStep(p)
       \/ ListStep(p)
       \/ StartRequest(p)
       \/ ConfigPut(p)
       \/ TaskPoll(p)
       \/ IpPoll(p)
       \/ IpTimeout(p)
       \/ Write(p)

SpecFollow == InitFollow /\ [][NextFollow]_vars

\* create, start, stop and delete of one name, one invocation after another,
\* start waiting for the address
SeqCalls == {c \in VmCalls : /\ c.vmName = "alpha"
                             /\ c.op \in {"create", "start", "stop", "delete"}
                             /\ c.op = "start" => c.waitSeconds # 0
                             /\ c.diskSize = 0}

SeqFleets == PairFleets \cup {<<Vm(100, "alpha", "paused")>>}

InitSeq ==
    /\ hv \in SeqFleets
    /\ gargs = [sc \in Scopes |-> IF sc = "vm" THEN [NoGArgs EXCEPT !.ticket = 1, !.csrfToken = 1]
                                  ELSE NoGArgs]
    /\ store = EmptyStore
    /\ stuck = FALSE
    /\ InitCommon

NextSeq ==
    \E p \in SeqProcs :
       \/ Invoke(p, SeqCalls, MaxPairOps)
       \/ AuthStep(p)
       \/ ListStep(p)
       \/ StartRequest(p)
       \/ StopRequest(p)
       \/ DeleteStopRequest(p)
       \/ DeleteRequest(p)
       \/ NextIdStep(p)
       \/ CreateRequest(p)
       \/ TaskPoll(p)
       \/ IpPoll(p)
       \/ IpTimeout(p)
       \/ Write(p)

SpecSeq == InitSeq /\ [][NextSeq]_vars

\* two auth invocations of one node definition running at the same time
AuthConcCalls == {c \in AuthCalls : c.op = "auth"}

InitAuthConc ==
    /\ hv = <<>>
    /\ gargs = [sc \in Scopes |-> IF sc = "node" THEN [NoGArgs EXCEPT !.username = TRUE, !.password = TRUE]
                                  ELSE NoGArgs]
    /\ \E d \in {<<>>, <<CachedSession(0)>>} : store = [EmptyStore EXCEPT !["node"]["auth"] = d]
    /\ stuck = FALSE
    /\ InitCommon

NextAuthConc ==
    \E p \in Procs :
       \/ Invoke(p, AuthConcCalls, MaxConcOps)
       \/ AuthStep(p)
       \/ Write(p)

SpecAuthConc == InitAuthConc /\ [][NextAuthConc]_vars

\* the waits of the handlers, with tasks that settle and tasks that never do:
\* a handler whose request was answered goes on (the event loop resumes every
\* await whose promise has settled), which is the fairness assumed
LiveCalls ==
    {c \in VmCalls : \/ c.vmName = "alpha" /\ c.op \in {"lookup", "start", "stop", "delete"}
                     \/ c.op = "sync"}

LiveFleets == {<<Vm(100, "alpha", "stopped")>>, <<Vm(100, "alpha", "running")>>}

InitLive ==
    /\ hv \in LiveFleets
    /\ gargs = [sc \in Scopes |-> IF sc = "vm" THEN [NoGArgs EXCEPT !.ticket = 1, !.csrfToken = 1]
                                  ELSE NoGArgs]
    /\ store = EmptyStore
    /\ stuck \in BOOLEAN
    /\ InitCommon

HandlerStep(p) ==
    \/ AuthStep(p)
    \/ ListStep(p)
    \/ StartRequest(p)
    \/ StopRequest(p)
    \/ DeleteStopRequest(p)
    \/ DeleteRequest(p)
    \/ TaskPoll(p)
    \/ IpPoll(p)
    \/ IpTimeout(p)
    \/ Write(p)

NextLive ==
    \E p \in SeqProcs :
       \/ Invoke(p, LiveCalls, MaxOps)
       \/ HandlerStep(p)

SpecLive == InitLive /\ [][NextLive]_vars /\ \A p \in SeqProcs : WF_vars(HandlerStep(p))

\* ------------------------------------------------------------ properties

\* the mutating requests an invocation has sent on the VM endpoints
Mutations(i) == i.nStart + i.nStop + i.nDelete + i.nCreate + i.nPut

\* the latest version the store holds under an invocation's only write
Latest(i) ==
    LET vs == store[ScopeOf(i.op)][i.written[1].name] IN vs[Len(vs)]

\* C1: stop on a VM whose resolved status is "stopped" sends no mutating
\* request and polls no task, and the one version it writes for that name has
\* status "stopped", a null ip and success true.
C1_StopOnStopped ==
    \A p \in Procs :
       LET i == inv[p]
           rec == [vmid |-> i.vm.vmid, vmName |-> i.vm.name, status |-> "stopped",
                   ip |-> NullIp, success |-> TRUE]
       IN (i.op = "stop" /\ i.vm.status = "stopped") =>
             /\ Mutations(i) = 0
             /\ i.nTaskPoll = 0
             /\ i.pc \in {"write", "done"}
             /\ i.pc = "write" => (i.written = <<>> /\ i.out = rec /\ i.outName = i.vmName)
             /\ i.pc = "done" =>
                   /\ Len(i.written) = 1
                   /\ i.written[1].name = i.vmName
                   /\ i.written[1].attrs = rec
                   /\ Latest(i).attrs = rec

C1_Witness ==
    \E p \in Procs :
       /\ inv[p].op = "stop"
       /\ inv[p].vm.status = "stopped"
       /\ inv[p].pc = "done"
       /\ Len(inv[p].written) = 1
       /\ inv[p].written[1].attrs.success

\* C2: when start is invoked twice in a row for one VM and the first
\* invocation left the VM running, the two invocations together send at most
\* one start request.
C2_StartTwice ==
    \A p \in SeqProcs :
       (/\ inv[p].op = "start"
        /\ prev.op = "start"
        /\ prev.vmName = inv[p].vmName
        /\ prev.running)
       => prev.nStart + inv[p].nStart <= 1

C2_Witness ==
    \E p \in SeqProcs :
       /\ inv[p].op = "start"
       /\ prev.op = "start"
       /\ prev.vmName = inv[p].vmName
       /\ prev.running
       /\ prev.nStart = 1
       /\ inv[p].pc = "done"
       /\ inv[p].nStart = 0
       /\ ~inv[p].written[1].attrs.wasStarted

\* C3: start on a stopped VM whose task exits "OK" and whose guest agent first
\* reports a qualifying address on the k-th poll inside the window sends
\* exactly one start request, polls the task to its terminal state, polls the
\* agent exactly k times, and writes one version with status "running", the
\* discovered address and wasStarted true.
C3_StartScenario ==
    \A p \in Procs :
       LET i == inv[p]
           rec == [vmid |-> i.vm.vmid, vmName |-> i.vm.name, status |-> "running",
                   ip |-> i.ip, wasStarted |-> TRUE]
       IN (i.op = "start" /\ i.vm.status = "stopped" /\ i.exit = "OK" /\ i.ipFoundAt > 0) =>
             /\ i.nStart = 1
             /\ Mutations(i) = 1
             /\ i.task = "start"
             /\ i.nTaskPoll >= 1
             /\ i.nIpPoll = i.ipFoundAt
             /\ i.ip \in i.reported
             /\ i.pc \in {"write", "done"}
             /\ i.pc = "write" => (i.written = <<>> /\ i.out = rec)
             /\ i.pc = "done" =>
                   /\ Len(i.written) = 1
                   /\ i.written[1].name = i.vmName
                   /\ i.written[1].attrs = rec
                   /\ Latest(i).attrs = rec

C3_Witness ==
    \E p \in Procs :
       /\ inv[p].op = "start"
       /\ inv[p].vm.status = "stopped"
       /\ inv[p].exit = "OK"
       /\ inv[p].ipFoundAt = 2
       /\ inv[p].nIpPoll = 2
       /\ inv[p].nTaskPoll > 1
       /\ inv[p].pc = "done"
       /\ inv[p].written[1].attrs.wasStarted
       /\ inv[p].written[1].attrs.ip = AddrA

\* what delete logs when its preliminary stop fails
StopFailureLogs ==
    {"Stop failed (VM may already be stopped), continuing",
     "VM may already be stopped, continuing to delete", "stop: exitstatus"}

\* C4: in delete on a VM that is not stopped, a failure of the stop phase (a
\* non-2xx answer, a transport failure, an error while polling the task, a
\* terminal task with an exit status other than "OK") is only logged, never
\* raised; delete then sends exactly one delete request and awaits its task,
\* and when that task exits "OK" it writes a version with status "deleted"
\* and success true.
C4_DeleteAfterFailedStop ==
    \A p \in Procs :
       LET i == inv[p]
           rec == [vmid |-> i.vm.vmid, vmName |-> i.vm.name, status |-> "deleted",
                   ip |-> NullIp, success |-> TRUE]
       IN (i.op = "delete" /\ i.stopFail # "none") =>
             /\ i.vm.status # "stopped"
             /\ i.nStop = 1
             /\ \E k \in 1..Len(i.logs) : i.logs[k] \in StopFailureLogs
             /\ i.pc \in {"deleteReq", "task", "write", "done", "failed"}
             /\ i.pc = "deleteReq" => (i.nDelete = 0 /\ i.err = NoErr)
             /\ i.pc # "deleteReq" => (i.nDelete = 1 /\ Mutations(i) = 2)
             /\ i.pc = "failed" =>
                   i.err.kind \in {"curl failed", "Failed to delete VM", "Task status check failed"}
             /\ i.pc \in {"task", "write", "done"} => (i.task = "delete" /\ i.err = NoErr)
             /\ i.pc \in {"write", "done"} => (i.nTaskPoll >= 1 /\ i.exit # "")
             /\ i.exit = "OK" =>
                   /\ i.pc \in {"write", "done"}
                   /\ i.pc = "write" => (i.written = <<>> /\ i.out = rec)
                   /\ i.pc = "done" =>
                         /\ Len(i.written) = 1
                         /\ i.written[1].name = i.vmName
                         /\ i.written[1].attrs = rec

C4_Witness ==
    \E p \in Procs :
       /\ inv[p].op = "delete"
       /\ inv[p].stopFail = "non2xx"
       /\ inv[p].vm.status = "running"
       /\ inv[p].nDelete = 1
       /\ inv[p].exit = "OK"
       /\ inv[p].pc = "done"
       /\ inv[p].written[1].attrs.status = "deleted"
       /\ inv[p].written[1].attrs.success
       /\ Matches(hv, inv[p].vmName) = {}

\* C5: setConfig with an empty configuration map raises a fatal error, sends
\* no request to the config endpoint and writes no version.
C5_EmptyConfig ==
    \A p \in Procs :
       LET i == inv[p] IN
       (i.op = "setConfig" /\ i.config = {}) =>
          /\ i.nPut = 0
          /\ Mutations(i) = 0
          /\ i.written = <<>>
          /\ i.pc \in {"auth", "list", "failed"}
          /\ (i.pc = "failed" /\ i.vm # NoVm) => i.err.kind = "No config params provided"

C5_Witness ==
    \E p \in Procs :
       /\ inv[p].op = "setConfig"
       /\ inv[p].config = {}
       /\ inv[p].vm # NoVm
       /\ inv[p].pc = "failed"
       /\ inv[p].err.kind = "No config params provided"

\* C6: a sync that completes writes exactly one version per VM of the list
\* it fetched, in list order, the VMs that are stopped and the running VMs
\* whose discovery returned no address included.
C6_SyncWritesAll ==
    \A p \in Procs :
       LET i == inv[p] IN
       (i.op = "sync") =>
          /\ i.pc \in {"ipWait", "write"} => Len(i.written) = i.idx - 1
          /\ i.pc = "done" =>
                /\ Len(i.written) = Len(i.rawVms)
                /\ \A k \in 1..Len(i.rawVms) :
                      /\ i.written[k].name = i.rawVms[k].name
                      /\ i.written[k].attrs.vmid = i.rawVms[k].vmid
                      /\ i.written[k].attrs.status = i.rawVms[k].status
                      /\ i.rawVms[k].status # "running" => i.written[k].attrs.ip = NullIp

C6_Witness ==
    \E p \in Procs :
       /\ inv[p].op = "sync"
       /\ inv[p].pc = "done"
       /\ Len(inv[p].rawVms) = 2
       /\ Len(inv[p].written) = 2
       /\ inv[p].written[1].attrs.status = "stopped"
       /\ inv[p].written[2].attrs.status = "running"
       /\ inv[p].written[2].attrs.ip = NullIp

\* C7: guest IP discovery never returns an address that begins with 127. nor
\* an address taken from the interface named "lo": what it returns is null or
\* an IPv4 address outside 127.* that an interface other than "lo" reported.
C7_NoLoopback ==
    probe.done =>
       \/ probe.result = NullIp
       \/ /\ probe.result[1] # 127
          /\ probe.result \in Reported(probe.answer)

C7_Witness ==
    /\ probe.done
    /\ probe.answer.kind = "ok"
    /\ probe.answer.ifaces = <<Lo(<<V4(AddrA)>>), Eth(<<V4(Loopback4), V4(AddrA)>>)>>
    /\ probe.result = AddrA

\* what a session resolution found: the auth directory at the time it ran
Resolved(i) == i.op # "none" /\ i.pc # "auth"
Explicit(i) == i.g.ticket # 0 /\ i.g.csrfToken # 0
HasCredentials(i) == i.g.username /\ i.g.password
FreshSeen(i) ==
    \E k \in 1..Len(i.cacheSeen) : i.authAt - i.cacheSeen[k].createdAt < AUTH_TTL_MS
StaleSeen(i) ==
    /\ i.cacheSeen # <<>>
    /\ i.authAt - i.cacheSeen[Len(i.cacheSeen)].createdAt > AUTH_TTL_MS

\* C8 as stated: session resolution never exchanges credentials when a cached
\* session younger than the TTL exists and no explicit ticket/CSRF override
\* is supplied.
C8_Original ==
    \A p \in Procs :
       (Resolved(inv[p]) /\ FreshSeen(inv[p]) /\ ~Explicit(inv[p])) => inv[p].nExchange = 0

\* C8: session resolution that is not told to skip the cache never exchanges
\* credentials when a cached session younger than the TTL exists and no
\* explicit ticket/CSRF override is supplied; it answers from the cache.
C8_CacheBeforeExchange ==
    \A p \in Procs :
       LET i == inv[p] IN
       (Resolved(i) /\ FreshSeen(i) /\ ~Explicit(i) /\ ~i.skipCache) =>
          /\ i.nExchange = 0
          /\ i.session.source = "cache"
          /\ i.session.ticket = RawTicket(i.cacheSeen[Len(i.cacheSeen)].attrs)

C8_Witness ==
    \E p \in Procs :
       /\ inv[p].op = "status"
       /\ inv[p].pc = "done"
       /\ HasCredentials(inv[p])
       /\ Len(inv[p].cacheSeen) = 2
       /\ inv[p].authAt = HourMs
       /\ inv[p].nExchange = 0
       /\ inv[p].session.source = "cache"

\* C9 as stated: session resolution always exchanges credentials when the
\* most recent cached session's age exceeds the TTL.
C9_Original ==
    \A p \in Procs :
       (Resolved(inv[p]) /\ StaleSeen(inv[p])) => inv[p].nExchange = 1

\* C9: when the most recent cached session's age exceeds the TTL, session
\* resolution exchanges credentials exactly when no explicit ticket/CSRF pair
\* is supplied and a username and a password are configured; with an explicit
\* pair it answers with that pair, and without credentials it raises "No auth
\* available", in both cases without a request.
C9_StaleCacheExchanges ==
    \A p \in Procs :
       LET i == inv[p] IN
       (Resolved(i) /\ StaleSeen(i)) =>
          /\ (~Explicit(i) /\ HasCredentials(i)) =>
                /\ i.nExchange = 1
                /\ i.session.source \in {"password", "none"}
                /\ i.session.source = "none" =>
                      (i.pc = "failed" /\ i.err.kind \in {"curl failed", "Authentication failed"})
          /\ Explicit(i) => (i.nExchange = 0 /\ i.session.source = "explicit")
          /\ (~Explicit(i) /\ ~HasCredentials(i)) =>
                (i.nExchange = 0 /\ i.pc = "failed" /\ i.err.kind = "No auth available")

C9_Witness ==
    \E p \in Procs :
       /\ inv[p].op = "status"
       /\ inv[p].pc = "done"
       /\ StaleSeen(inv[p])
       /\ inv[p].nExchange = 1
       /\ inv[p].session.source = "password"
       /\ inv[p].session.ticket >= 10

\* a task an operation awaited has reached a terminal state with an exit
\* status other than "OK", and the handler has taken the result
TaskFailed(i) == i.pc # "task" /\ i.exit \notin {"", "OK"}

\* C10 as stated: in create, start, stop and delete, a task that ends with an
\* exit status other than "OK" makes the operation raise a fatal error that
\* carries the raw exit status.
C10_Original ==
    \A p \in Procs :
       LET i == inv[p] IN
       (TaskFailed(i) /\ i.task \in {"create", "start", "stop", "delete"}) =>
          (i.pc = "failed" /\ i.err.detail = <<i.exit>>)

\* C10: in create and start, a task that ends with an exit status other than
\* "OK" makes the operation raise a fatal error that carries the raw exit
\* status, and nothing is written; in stop and delete it does not: the exit
\* status is logged and a version with success false is written, and the
\* stop task inside delete is logged and followed by the delete request.
C10_TaskFailure ==
    \A p \in Procs :
       LET i == inv[p] IN
       TaskFailed(i) =>
          /\ i.task \in {"create", "start"} =>
                /\ i.pc = "failed"
                /\ i.err.kind = (IF i.task = "start" THEN "VM start failed" ELSE "VM creation failed")
                /\ i.err.detail = <<i.exit>>
                /\ i.written = <<>>
          /\ i.task \in {"stop", "delete"} =>
                /\ i.pc \in {"write", "done"}
                /\ i.err = NoErr
                /\ i.out.success = FALSE
                /\ i.out.status = (IF i.task = "stop" THEN "stopped" ELSE "deleted")
                /\ i.pc = "done" => (Len(i.written) = 1 /\ i.written[1].attrs = i.out)
          /\ i.task = "delstop" =>
                /\ i.stopFail = "exit"
                /\ \/ i.pc = "deleteReq" /\ i.err = NoErr
                   \/ /\ i.pc = "failed"
                      /\ i.nDelete = 1
                      /\ i.err.kind \in {"curl failed", "Failed to delete VM"}

C10_Witness ==
    \E p \in Procs :
       /\ inv[p].op = "create"
       /\ inv[p].task = "create"
       /\ inv[p].exit = "VM is locked"
       /\ inv[p].pc = "failed"
       /\ inv[p].err = Error("VM creation failed", <<"VM is locked">>)

\* an invocation has returned or raised
Finished(i) == i.op # "none" /\ i.pc \in {"done", "failed"}

\* a step keeps every version the store holds, at its place
StoreGrows ==
    \A sc \in Scopes, n \in Instances :
       /\ Len(store'[sc][n]) >= Len(store[sc][n])
       /\ SubSeq(store'[sc][n], 1, Len(store[sc][n])) = store[sc][n]

\* C11 as stated: every invocation either returns normally after persisting
\* a resource version or raises an error without having written one.
C11_Original ==
    \A p \in Procs :
       Finished(inv[p]) =>
          \/ inv[p].pc = "done" /\ Len(inv[p].written) >= 1
          \/ inv[p].pc = "failed" /\ inv[p].written = <<>>

\* C11: an invocation that raises an error has written no resource version;
\* one that returns normally has persisted exactly one, except sync, which
\* has persisted one per listed VM and so none for an empty list; and no step
\* removes or changes a version the store already holds.
C11_AllOrNothing ==
    /\ [](\A p \in Procs :
            LET i == inv[p] IN
            /\ i.pc = "failed" => (i.written = <<>> /\ i.err # NoErr)
            /\ (i.op # "none" /\ i.pc = "done") =>
                  /\ i.err = NoErr
                  /\ Len(i.written) = (IF i.op = "sync" THEN Len(i.rawVms) ELSE 1)
            /\ (i.op # "sync" /\ i.written # <<>>) => i.pc = "done")
    /\ [][StoreGrows]_vars

C11_Witness ==
    \E p \in Procs :
       /\ inv[p].op = "delete"
       /\ inv[p].pc = "failed"
       /\ inv[p].nStop = 1
       /\ inv[p].nDelete = 1
       /\ inv[p].written = <<>>
       /\ HvStatus(hv, inv[p].vm.vmid) = "stopped"

\* C12: when guest IP discovery returns null, start raises an error and
\* writes no version, whereas lookup and sync do not raise and write a
\* version with ip null.
C12_NullIp ==
    \A p \in Procs :
       LET i == inv[p] IN
       (i.ipReturned = "null") =>
          /\ i.op \in {"start", "lookup", "sync"}
          /\ i.op = "start" =>
                /\ i.pc = "failed"
                /\ i.err.kind = "guest agent did not return an IP"
                /\ i.written = <<>>
          /\ i.op \in {"lookup", "sync"} =>
                /\ i.err = NoErr
                /\ i.pc \in {"write", "done"}
                /\ i.out.ip = NullIp
                /\ i.out.vmid = i.vm.vmid
                /\ i.pc = "done" => i.written[Len(i.written)].attrs = i.out
          /\ i.op = "lookup" => (i.pc = "done" => Len(i.written) = 1)

C12_Witness ==
    \E p \in Procs :
       /\ inv[p].op = "lookup"
       /\ inv[p].ipReturned = "null"
       /\ inv[p].nIpPoll = 5
       /\ inv[p].pc = "done"
       /\ inv[p].written[1].attrs.status = "running"
       /\ inv[p].written[1].attrs.ip = NullIp

BootDevices(boot) ==
    CASE boot = "order=net0" -> <<"net0">>
      [] boot = "order=net0;scsi0" -> <<"net0", "scsi0">>
      [] boot = "order=scsi0;net0" -> <<"scsi0", "net0">>
      [] OTHER -> <<>>

\* device d comes before device e in a boot order
Before(devs, d, e) ==
    \E a, b \in 1..Len(devs) : a < b /\ devs[a] = d /\ devs[b] = e

\* the version create records for the VM it made
CreatedRecord(i) ==
    [vmid |-> i.vm.vmid, vmName |-> i.vmName, status |-> "stopped", ip |-> NullIp,
     success |-> TRUE]

\* C14 as stated: create sends a boot order that is network-first when the
\* disk size is 0 and disk-first (the disk before the network device) for
\* any other disk size, and on success records the VM as stopped with ip null.
C14_Original ==
    \A p \in Procs :
       LET i == inv[p]
           devs == BootDevices(i.boot)
       IN (i.op = "create" /\ i.nCreate = 1) =>
             /\ i.diskSize = 0 => Head(devs) = "net0"
             /\ i.diskSize # 0 => Before(devs, "scsi0", "net0")
             /\ i.pc = "done" => i.written[1].attrs = CreatedRecord(i)

\* C14: create sends a boot order that is network-first whatever the disk
\* size: the network device alone when the disk size is 0, the network device
\* and then the disk for any other disk size; on success it records the new
\* VM with status "stopped" and ip null.
C14_CreateBootOrder ==
    \A p \in Procs :
       LET i == inv[p]
           devs == BootDevices(i.boot)
       IN (i.op = "create" /\ i.nCreate = 1) =>
             /\ i.diskSize = 0 => devs = <<"net0">>
             /\ i.diskSize # 0 => (devs = <<"net0", "scsi0">> /\ Before(devs, "net0", "scsi0"))
             /\ i.pc = "done" =>
                   /\ i.exit = "OK"
                   /\ Len(i.written) = 1
                   /\ i.written[1].name = i.vmName
                   /\ i.written[1].attrs = CreatedRecord(i)
                   /\ HvStatus(hv, i.vm.vmid) = "stopped"

C14_Witness ==
    \E p \in Procs :
       /\ inv[p].op = "create"
       /\ inv[p].diskSize = 32
       /\ inv[p].boot = "order=net0;scsi0"
       /\ inv[p].pc = "done"
       /\ inv[p].written[1].attrs.status = "stopped"
       /\ inv[p].written[1].attrs.ip = NullIp

\* the versions of a name that record VM vmid
VersionsOf(name, vmid) ==
    {k \in 1..Len(store["vm"][name]) : store["vm"][name][k].attrs.vmid = vmid}

\* C15: create is not idempotent and does not check the name: two successful
\* create invocations with the same name send two create requests and leave
\* two VMs with that name and different vmids on the hypervisor, and each
\* invocation appends its own version under that name.
C15_CreateTwice ==
    \A p \in SeqProcs :
       LET i == inv[p] IN
       (/\ i.op = "create" /\ i.pc = "done"
        /\ prev.op = "create" /\ prev.pc = "done"
        /\ prev.vmName = i.vmName) =>
          /\ prev.nCreate = 1
          /\ i.nCreate = 1
          /\ prev.vmid # i.vm.vmid
          /\ \E a, b \in Matches(hv, i.vmName) :
                a # b /\ hv[a].vmid = prev.vmid /\ hv[b].vmid = i.vm.vmid
          /\ prev.nWritten = 1
          /\ Len(i.written) = 1
          /\ \E a \in VersionsOf(i.vmName, prev.vmid) :
                \E b \in VersionsOf(i.vmName, i.vm.vmid) : a < b
          /\ i.written[1].version = Len(store["vm"][i.vmName])

C15_Witness ==
    \E p \in SeqProcs :
       /\ inv[p].op = "create" /\ inv[p].pc = "done"
       /\ prev.op = "create" /\ prev.pc = "done"
       /\ prev.vmName = inv[p].vmName
       /\ Cardinality(Matches(hv, inv[p].vmName)) = 2
       /\ Len(store["vm"][inv[p].vmName]) = 2

\* one of the ticket and the anti-CSRF token is supplied, not both
Partial(i) == (i.g.ticket # 0) # (i.g.csrfToken # 0)
FreshLatest(i) ==
    /\ i.cacheSeen # <<>>
    /\ i.authAt - i.cacheSeen[Len(i.cacheSeen)].createdAt < AUTH_TTL_MS
AuthErrors == {"No auth available", "curl failed", "Authentication failed"}

\* C16: with both a ticket and an anti-CSRF token supplied, session
\* resolution returns exactly those two values with source "explicit",
\* without reading the cache, whatever the age of what the cache holds, and
\* without a network call; with only one of the two supplied the explicit
\* tier is not used and resolution goes on with the cache and password tiers.
C16_ExplicitTier ==
    \A p \in Procs :
       LET i == inv[p] IN
       Resolved(i) =>
          /\ Explicit(i) =>
                /\ i.session = [ticket |-> i.g.ticket, csrfToken |-> i.g.csrfToken,
                                source |-> "explicit"]
                /\ ~i.cacheRead
                /\ i.nExchange = 0
                /\ i.err.kind # "No auth available"
          /\ Partial(i) =>
                /\ i.session.source # "explicit"
                /\ i.cacheRead = ~i.skipCache
                /\ (FreshLatest(i) /\ ~i.skipCache) =>
                      (i.session.source = "cache" /\ i.nExchange = 0)
                /\ (~FreshLatest(i) \/ i.skipCache) =>
                      IF HasCredentials(i)
                      THEN i.nExchange = 1
                      ELSE /\ i.nExchange = 0
                           /\ i.pc = "failed"
                           /\ i.err.kind = "No auth available"

C16_Witness ==
    \E p \in Procs :
       /\ inv[p].op = "stop"
       /\ Explicit(inv[p])
       /\ StaleSeen(inv[p])
       /\ inv[p].session.source = "explicit"
       /\ inv[p].session.ticket = 1
       /\ inv[p].pc = "done"

\* C17: with no explicit session, no cache entry younger than the TTL, and
\* the username or the password missing, session resolution fails with a
\* configuration error without any request to the ticket endpoint.
C17_NoCredentials ==
    \A p \in Procs :
       LET i == inv[p] IN
       (Resolved(i) /\ ~Explicit(i) /\ ~FreshLatest(i) /\ ~HasCredentials(i)) =>
          /\ i.pc = "failed"
          /\ i.err.kind = "No auth available"
          /\ i.nExchange = 0
          /\ i.session = NoSession
          /\ i.nList = 0
          /\ i.written = <<>>

C17_Witness ==
    \E p \in Procs :
       /\ inv[p].op = "status"
       /\ inv[p].g.username
       /\ ~inv[p].g.password
       /\ StaleSeen(inv[p])
       /\ inv[p].pc = "failed"
       /\ inv[p].err.kind = "No auth available"
       /\ minted = 0

\* C18: every auth invocation that succeeds has bypassed the cache, minted a
\* fresh session through a credential exchange made in that invocation, and
\* persisted that session as exactly one new version with a 2-hour lifetime.
C18_AuthMintsAndPersists ==
    \A p \in SeqProcs :
       LET i == inv[p] IN
       (i.op = "auth" /\ i.pc \in {"write", "done"}) =>
          /\ ~i.cacheRead
          /\ i.nExchange = 1
          /\ i.session.source = "password"
          /\ i.session.ticket = 10 + (minted - 1)
          /\ \A k \in 1..Len(i.cacheSeen) : i.cacheSeen[k].attrs.ticket # i.session.ticket
          /\ i.out.ticket = i.session.ticket /\ i.out.csrfToken = i.session.csrfToken
          /\ i.pc = "write" => i.written = <<>>
          /\ i.pc = "done" =>
                /\ Len(i.written) = 1
                /\ i.written[1].name = "node"
                /\ i.written[1].version = Len(store["node"]["node"])
                /\ Latest(i).attrs = i.out
                /\ Latest(i).lifetime = "2h"
                /\ Latest(i).createdAt = i.authAt

C18_Witness ==
    \E p \in SeqProcs :
       /\ inv[p].op = "auth"
       /\ inv[p].pc = "done"
       /\ FreshLatest(inv[p])
       /\ inv[p].nExchange = 1
       /\ Len(store["node"]["node"]) = 1
       /\ store["node"]["node"][1].lifetime = "2h"
       /\ store["node"]["node"][1].attrs.ticket = inv[p].session.ticket

\* the versions auth has persisted (resource "node", instance "node")
AuthPersisted == store["node"]["node"]

\* C19: after a successful auth, a resolution made by any other operation
\* less than 2 hours later with no explicit ticket returns the session auth
\* persisted, from the cache (source "cache"), without a credential exchange.
C19_CacheFindsAuthSession ==
    \A p \in SeqProcs :
       LET i == inv[p] IN
       ( /\ Resolved(i)
         /\ i.op # "auth"
         /\ ~ExplicitPair(i.g)
         /\ AuthPersisted # <<>>
         /\ i.authAt - AuthPersisted[Len(AuthPersisted)].createdAt < AUTH_TTL_MS ) =>
          /\ i.session.source = "cache"
          /\ i.session.ticket = AuthPersisted[Len(AuthPersisted)].attrs.ticket
          /\ i.nExchange = 0

\* the operations that address a VM by name through resolveVm
NameAddressed == {"lookup", "start", "stop", "delete", "setBootOrder", "setConfig"}

\* C20: delete is not idempotent against an absent VM: after a delete that
\* removed the VM, a second delete (or another operation resolving that name)
\* fails at VM resolution with the not-found error once the list is answered,
\* sends no mutating request and writes no version.
C20_DeleteTwice ==
    \A p \in SeqProcs :
       LET i == inv[p] IN
       (/\ prev.op = "delete" /\ prev.pc = "done" /\ prev.left = 0
        /\ i.op \in NameAddressed
        /\ i.vmName = prev.vmName) =>
          /\ i.pc \in {"auth", "list", "failed"}
          /\ (i.pc = "failed" /\ i.err.kind \notin {"curl failed", "Failed to list VMs"}) =>
                i.err.kind = "VM not found"
          /\ i.vm = NoVm
          /\ i.nStart = 0 /\ i.nStop = 0 /\ i.nDelete = 0 /\ i.nCreate = 0 /\ i.nPut = 0
          /\ i.nTaskPoll = 0 /\ i.nIpPoll = 0
          /\ i.written = <<>>
          /\ Len(store["vm"][i.vmName]) >= 1
          /\ store["vm"][i.vmName][Len(store["vm"][i.vmName])].attrs.status = "deleted"

C20_Witness ==
    \E p \in SeqProcs :
       /\ prev.op = "delete" /\ prev.pc = "done" /\ prev.left = 0
       /\ inv[p].op = "delete"
       /\ inv[p].vmName = prev.vmName
       /\ inv[p].pc = "failed"
       /\ inv[p].err.kind = "VM not found"
       /\ inv[p].nList = 1

\* the version numbers a resource name holds: the positions of its directory
VersionNumbers(vs) == 1..Len(vs)

\* C21: the resource store is append-only: every write for a (kind, name)
\* creates a new version whose number is greater than every version already
\* under that key, and no step of any operation changes or removes a version
\* that was already written.
C21_AppendOnly ==
    [][/\ \A sc \in Scopes, n \in Instances :
             /\ Len(store'[sc][n]) >= Len(store[sc][n])
             /\ \A k \in VersionNumbers(store[sc][n]) : store'[sc][n][k] = store[sc][n][k]
       /\ \A p \in Procs :
             (inv[p].pc = "write" /\ Len(inv'[p].written) = Len(inv[p].written) + 1) =>
                LET sc == ScopeOf(inv[p].op)
                    n == inv[p].outName
                    h == inv'[p].written[Len(inv'[p].written)]
                IN /\ h.name = n
                   /\ Len(store'[sc][n]) = Len(store[sc][n]) + 1
                   /\ h.version = Len(store'[sc][n])
                   /\ \A k \in VersionNumbers(store[sc][n]) : h.version > k
                   /\ store'[sc][n][h.version].attrs = JsonWritten(inv[p].out)]_vars

C21_Witness ==
    \E p \in Procs :
       /\ inv[p].op = "sync"
       /\ inv[p].pc = "done"
       /\ Len(store["vm"]["alpha"]) = 2
       /\ store["vm"]["alpha"][1].attrs.vmid = 100
       /\ store["vm"]["alpha"][2].attrs.vmid = 101
       /\ inv[p].written[1].version = 1 /\ inv[p].written[2].version = 2

\* the list request of resolveVm itself failed
ListFailed(i) == i.pc = "failed" /\ i.err.kind \in {"curl failed", "Failed to list VMs"}

\* C22: resolveVm returns the vmid and status of a listed VM whose name is
\* exactly the requested one, and fails with the not-found error listing the
\* available names if and only if no listed VM has exactly that name; it never
\* returns a VM of another name.
C22_ResolveExact ==
    [][\A p \in Procs :
          (inv[p].pc = "list" /\ inv[p].op \in NameAddressed /\ inv'[p] # inv[p]
           /\ ~ListFailed(inv'[p])) =>
             LET j == inv'[p]
                 notFound == j.pc = "failed" /\ j.err.kind = "VM not found"
                 named == {k \in 1..Len(hv) : hv[k].name = inv[p].vmName}
             IN /\ notFound <=> (named = {})
                /\ notFound => (j.err.detail = NamesOf(hv) /\ j.vm = NoVm)
                /\ ~notFound =>
                      /\ \E k \in named : j.vm = hv[k]
                      /\ j.vm.name = inv[p].vmName]_vars

C22_Witness ==
    \E p \in Procs :
       /\ inv[p].op \in NameAddressed
       /\ inv[p].vmName = "beta"
       /\ inv[p].nList = 1
       /\ Len(hv) = 2
       /\ hv[1].name = "alpha"
       /\ inv[p].vm = hv[2]
       /\ inv[p].vm.status = "running"

\* the operations that only observe
ReadOnlyOps == {"lookup", "sync"}

\* C23: sync and lookup never send a mutating hypervisor request: they list
\* the VMs and query the guest agent, the hypervisor's VMs are unchanged by
\* every step of theirs, and their only side effects are version writes.
C23_ReadOnly ==
    [][\A p \in Procs :
          (inv[p].op \in ReadOnlyOps /\ inv'[p].op = inv[p].op) =>
             /\ hv' = hv
             /\ minted' = minted
             /\ gargs' = gargs
             /\ Mutations(inv'[p]) = 0
             /\ inv'[p].nExchange = 0
             /\ inv'[p].nTaskPoll = 0
             /\ store' # store =>
                   /\ inv[p].pc = "write"
                   /\ Len(inv'[p].written) = Len(inv[p].written) + 1]_vars

C23_Witness ==
    \E p \in Procs :
       /\ inv[p].op = "lookup"
       /\ inv[p].pc = "done"
       /\ inv[p].nList = 1
       /\ inv[p].nIpPoll >= 2
       /\ inv[p].vm.status = "running"
       /\ HvStatus(hv, inv[p].vm.vmid) = "running"
       /\ Len(store["vm"][inv[p].vmName]) = 1

\* the operations that send a request returning a task handle
LifecycleOps == {"start", "stop", "create", "delete"}

\* the requests an invocation has sent for the task it is on
RequestsFor(i) ==
    CASE i.task = "start" -> i.nStart
      [] i.task \in {"stop", "delstop"} -> i.nStop
      [] i.task = "delete" -> i.nDelete
      [] i.task = "create" -> i.nCreate
      [] OTHER -> 0

\* IP discovery has begun
Discovering(i) == i.pc = "ipWait" \/ i.nIpPoll > 0 \/ i.ipReturned # "pending"

\* C24: within one lifecycle operation the request that returns a task handle
\* precedes the first poll for that handle, the poll has completed (or has
\* ended the operation) before IP discovery begins, and IP discovery has
\* completed or timed out before the version is written.
C24_StepOrder ==
    \A p \in Procs :
       LET i == inv[p] IN
       i.op \in LifecycleOps =>
          /\ (i.pc = "task" \/ i.nTaskPoll > 0) => RequestsFor(i) = 1
          /\ i.pc = "task" => (~Discovering(i) /\ i.written = <<>>)
          /\ (Discovering(i) /\ i.nStart > 0) =>
                (i.task = "start" /\ i.nTaskPoll >= 1 /\ i.exit = "OK" /\ i.pc # "task")
          /\ Discovering(i) => i.op = "start"
          /\ i.pc = "ipWait" => (i.written = <<>> /\ i.ipReturned = "pending")
          /\ (i.op = "start" /\ (i.pc \in {"write", "done"} \/ i.written # <<>>)) =>
                i.ipReturned = "address"
          /\ i.written # <<>> => i.pc = "done"
          /\ (i.pc \in {"write", "done"} /\ i.task # "") => (i.nTaskPoll >= 1 /\ i.exit # "")

C24_Witness ==
    \E p \in Procs :
       /\ inv[p].op = "start"
       /\ inv[p].pc = "done"
       /\ inv[p].nStart = 1
       /\ inv[p].nTaskPoll = 3
       /\ inv[p].nIpPoll = 2
       /\ Len(inv[p].written) = 1

\* waitForTask has returned to the handler
TaskReturned(i) == i.taskResult # NoTaskResult

\* C25: waitForTask returns only after a status query reported the phase
\* "stopped"; its success flag is true if and only if the exit status is
\* exactly "OK", and pollCount is the number of status queries it sent, at
\* least 1.
C25_TaskPoller ==
    \A p \in Procs :
       LET i == inv[p]
           r == i.taskResult
       IN /\ TaskReturned(i) =>
                /\ i.lastPhase = "stopped"
                /\ r.exitstatus = i.exit
                /\ r.success <=> (r.exitstatus = "OK")
                /\ r.pollCount = i.nTaskPoll
                /\ r.pollCount >= 1
                /\ i.pc # "task"
          /\ i.lastPhase \in {"running", "curl", "non2xx", ""} => ~TaskReturned(i)
          /\ i.lastPhase = "running" => i.pc = "task"
          /\ (i.task # "" /\ i.pc \in {"write", "done", "ipWait"}) =>
                (TaskReturned(i) \/ i.task = "delstop")

C25_Witness ==
    \E p \in Procs :
       /\ inv[p].op = "stop"
       /\ inv[p].pc = "done"
       /\ inv[p].taskResult = [success |-> FALSE, exitstatus |-> "WARNINGS: 1", pollCount |-> 3]
       /\ inv[p].nTaskPoll = 3

\* the last status query of the task an invocation is on got a non-2xx answer
PollRefused(i) == i.lastPhase = "non2xx"

\* C26: while waitForTask is polling, the first non-2xx answer to a status
\* query ends the polling with an error: no further status query is sent for
\* that task.
C26_NoRetryOfPoll ==
    /\ [](\A p \in Procs :
            LET i == inv[p] IN
            PollRefused(i) =>
               /\ i.pc # "task"
               /\ ~TaskReturned(i)
               /\ i.nTaskPoll >= 1
               /\ i.task # "delstop" =>
                     (i.pc = "failed" /\ i.err.kind = "Task status check failed")
               /\ i.task = "delstop" =>
                     (i.stopFail = "poll" /\ i.pc \in {"deleteReq", "failed"}))
    /\ [][\A p \in Procs :
             (PollRefused(inv[p]) /\ PollRefused(inv'[p])) =>
                inv'[p].nTaskPoll = inv[p].nTaskPoll]_vars

C26_Witness ==
    \E p \in Procs :
       /\ inv[p].op = "start"
       /\ PollRefused(inv[p])
       /\ inv[p].nTaskPoll = 2
       /\ inv[p].pc = "failed"
       /\ inv[p].err.kind = "Task status check failed"

\* the last status query of the task failed (curl or non-2xx)
PollFailed(i) == i.lastPhase \in {"curl", "non2xx"}

\* C27: waitForTask has no timeout: when the task comes to report "stopped"
\* and every query is answered 2xx the poller eventually returns; when the
\* task never reports "stopped" and no query fails the poller goes on polling,
\* however many queries it has made, and the operation neither completes nor
\* writes a version.
C27_NoTimeout ==
    /\ [](\A p \in SeqProcs :
            LET i == inv[p] IN
            (stuck /\ i.task # "" /\ ~PollFailed(i)) =>
               (i.pc = "task" /\ i.written = <<>> /\ ~TaskReturned(i)))
    /\ \A p \in SeqProcs :
          (inv[p].pc = "task" /\ ~stuck) ~> (TaskReturned(inv[p]) \/ PollFailed(inv[p]))
    /\ \A p \in SeqProcs :
          (inv[p].pc = "task" /\ stuck) ~>
             (inv[p].nTaskPoll >= MaxStuckPolls \/ PollFailed(inv[p]))

C27_Witness ==
    \E p \in SeqProcs :
       /\ stuck
       /\ inv[p].op = "stop"
       /\ inv[p].pc = "task"
       /\ inv[p].nTaskPoll = MaxStuckPolls
       /\ inv[p].lastPhase = "running"
       /\ now >= MaxStuckPolls * 1000
       /\ store["vm"]["alpha"] = <<>>

\* C28: getVmIpWithRetry never raises and always terminates: whatever the
\* guest agent answers (transport error, non-2xx, malformed body, no
\* qualifying address) it sends a query only while the time is before the
\* deadline, none at or after it, returns null when no query yielded a
\* qualifying address (sending none at all when waitSeconds is 0), and
\* otherwise returns the first qualifying address found.
C28_Discovery ==
    /\ [](\A p \in SeqProcs :
            LET i == inv[p] IN
            /\ i.pc = "ipWait" => (i.ipFoundAt = 0 /\ i.ipReturned = "pending")
            /\ i.ipReturned = "null" =>
                  (i.ipFoundAt = 0 /\ i.ip = NullIp /\ now >= i.deadline)
            /\ i.ipReturned = "address" =>
                  /\ i.nIpPoll >= 1
                  /\ i.ipFoundAt = i.nIpPoll
                  /\ i.ip \in i.reported
                  /\ i.ip # NullIp
            /\ (i.op = "start" /\ i.waitSeconds = 0) => i.nIpPoll = 0
            /\ (i.pc = "failed" /\ Discovering(i)) =>
                  /\ i.op = "start"
                  /\ i.ipReturned = "null"
                  /\ i.err.kind = "guest agent did not return an IP")
    /\ [][\A p \in SeqProcs :
             inv'[p].nIpPoll > inv[p].nIpPoll =>
                /\ inv[p].pc = "ipWait"
                /\ now < inv[p].deadline
                /\ inv'[p].nIpPoll = inv[p].nIpPoll + 1]_vars
    /\ \A p \in SeqProcs : (inv[p].pc = "ipWait") ~> (inv[p].pc # "ipWait")

C28_Witness ==
    \E p \in SeqProcs :
       /\ inv[p].op = "lookup"
       /\ inv[p].ipReturned = "null"
       /\ inv[p].nIpPoll = 5
       /\ now = inv[p].deadline
       /\ inv[p].pc = "write"

\* the operations that change a VM
MutatingOps == {"create", "start", "stop", "delete", "setBootOrder", "setConfig"}

\* C29: no failed call is retried: in one invocation of create, start, stop,
\* delete, setBootOrder or setConfig each mutating request (create, start,
\* stop, delete, config PUT) and the credential exchange are sent at most
\* once, and an error that ends the invocation is followed by no further
\* request of that invocation.
C29_NoRetry ==
    /\ [](\A p \in Procs :
            LET i == inv[p] IN
            i.op \in MutatingOps =>
               /\ i.nCreate <= 1 /\ i.nStart <= 1 /\ i.nStop <= 1
               /\ i.nDelete <= 1 /\ i.nPut <= 1 /\ i.nExchange <= 1
               /\ i.nList <= 1)
    /\ [][\A p \in Procs :
             (inv[p].op \in MutatingOps /\ inv[p].pc = "failed" /\ inv'[p] # inv[p]) =>
                (nInv' = nInv + 1 /\ inv'[p].pc = "auth" /\ Mutations(inv'[p]) = 0)]_vars

C29_Witness ==
    \E p \in Procs :
       /\ inv[p].op = "delete"
       /\ inv[p].pc = "failed"
       /\ inv[p].err.kind = "Failed to delete VM"
       /\ inv[p].nDelete = 1
       /\ inv[p].nStop = 1
       /\ inv[p].stopFail = "non2xx"

\* two invocations of start at work on the same VM
StartsOn(p, q) ==
    /\ p # q
    /\ inv[p].op = "start" /\ inv[q].op = "start"
    /\ inv[p].vm # NoVm /\ inv[p].vm.vmid = inv[q].vm.vmid

\* C30: concurrent operations on one VM name are not mutually excluded: two
\* concurrent start invocations for the same stopped VM can both resolve the
\* status "stopped" before either start takes effect, and both then send a
\* start request for the same vmid; a start waiting to send its request is
\* never held back by the other, and two starts that both sent one had both
\* resolved "stopped".
C30_ConcurrentStarts ==
    \A p, q \in Procs :
       StartsOn(p, q) =>
          /\ inv[p].pc = "startReq" => ENABLED StartRequest(p)
          /\ (inv[p].nStart = 1 /\ inv[q].nStart = 1) =>
                /\ inv[p].vm.status = "stopped"
                /\ inv[q].vm.status = "stopped"
                /\ inv[p].nList = 1 /\ inv[q].nList = 1

C30_Witness ==
    \E p, q \in Procs :
       /\ StartsOn(p, q)
       /\ inv[p].vm.status = "stopped" /\ inv[q].vm.status = "stopped"
       /\ inv[p].nStart = 1 /\ inv[q].nStart = 1
       /\ inv[p].pc = "task" /\ inv[q].pc = "task"
       /\ inv[p].nTaskPoll = 0 /\ inv[q].nTaskPoll = 0
       /\ HvStatus(hv, inv[p].vm.vmid) = "stopped"

\* two auth invocations that have both finished
BothAuthDone(p, q) ==
    /\ p # q
    /\ inv[p].op = "auth" /\ inv[p].pc = "done"
    /\ inv[q].op = "auth" /\ inv[q].pc = "done"

\* the version an auth invocation wrote, as the store holds it now
OwnVersion(i) == AuthPersisted[i.written[1].version]

\* C31: two concurrent authentications are not serialized: each makes its own
\* credential exchange and writes its own session version; once both have
\* finished the latest version is exactly the session written last, its
\* ticket and anti-CSRF token from one exchange, and the other session is
\* still there as an earlier version.
C31_ConcurrentAuth ==
    \A p, q \in Procs :
       BothAuthDone(p, q) =>
          LET i == inv[p]
              j == inv[q]
              last == AuthPersisted[Len(AuthPersisted)]
          IN /\ i.nExchange = 1 /\ j.nExchange = 1
             /\ i.session.ticket # j.session.ticket
             /\ Len(i.written) = 1 /\ Len(j.written) = 1
             /\ i.written[1].version # j.written[1].version
             /\ Len(AuthPersisted) = Max(i.written[1].version, j.written[1].version)
             /\ OwnVersion(i).attrs.ticket = i.session.ticket
             /\ OwnVersion(i).attrs.csrfToken = i.session.csrfToken
             /\ OwnVersion(j).attrs.ticket = j.session.ticket
             /\ OwnVersion(j).attrs.csrfToken = j.session.csrfToken
             /\ last \in {OwnVersion(i), OwnVersion(j)}
             /\ last.attrs.ticket = last.attrs.csrfToken

\* the session exchanged first is the one written last
C31_Witness ==
    \E p, q \in Procs :
       /\ BothAuthDone(p, q)
       /\ inv[p].session.ticket < inv[q].session.ticket
       /\ inv[p].written[1].version = 2
       /\ inv[q].written[1].version = 1
       /\ AuthPersisted[2].attrs.ticket = inv[p].session.ticket
       /\ AuthPersisted[1].attrs.ticket = inv[q].session.ticket

\* a sync invocation inside its loop over the listed VMs
InSyncLoop(i) == i.op = "sync" /\ i.pc \in {"ipWait", "write"}

\* the first k listed VMs each have their version, in list order
WrittenInOrder(i, k) ==
    /\ Len(i.written) = k
    /\ \A n \in 1..k : /\ i.written[n].name = i.rawVms[n].name
                       /\ i.written[n].attrs.vmid = i.rawVms[n].vmid

\* where sync stands: on one listed VM, the ones before it written and none
\* after it touched; a discovery only for a VM listed as running
C32_SyncPosition ==
    \A p \in SeqProcs :
       LET i == inv[p]
       IN InSyncLoop(i) =>
             /\ i.idx \in 1..Len(i.rawVms)
             /\ i.vm = i.rawVms[i.idx]
             /\ WrittenInOrder(i, i.idx - 1)
             /\ (i.pc = "ipWait" \/ i.nIpPoll > 0) => i.rawVms[i.idx].status = "running"
             /\ i.pc = "write" => i.outName = i.rawVms[i.idx].name

\* the steps of sync's loop: a guest-agent request goes to the VM sync stands
\* on, the write of that VM comes after its discovery and the loop moves to
\* the next VM only with that write
C32_SyncSteps ==
    \A p \in SeqProcs :
       LET i == inv[p]
           j == inv'[p]
       IN InSyncLoop(i) /\ j.op = "sync" /\ nInv' = nInv =>
             /\ j.nIpPoll > i.nIpPoll =>
                   /\ i.pc = "ipWait" /\ i.rawVms[i.idx].status = "running"
                   /\ j.idx = i.idx /\ j.written = i.written
             /\ j.idx # i.idx =>
                   /\ i.pc = "write" /\ j.idx = i.idx + 1
                   /\ WrittenInOrder(j, i.idx)
             /\ j.written # i.written => i.pc = "write" /\ j.idx = i.idx + 1
             /\ i.pc = "ipWait" /\ j.pc = "write" => j.idx = i.idx /\ j.written = i.written

\* C32: sync handles the listed VMs strictly one after another in list order:
\* at most one guest-agent discovery is in progress, the version of VM i is
\* written after VM i's discovery has ended and before VM i+1's starts, and no
\* guest-agent request goes to a VM whose listed status is not "running".
C32_SyncSequential == []C32_SyncPosition /\ [][C32_SyncSteps]_vars

\* sync polling the guest agent of the second listed VM, the first one (not
\* running, never asked) already written
C32_Witness ==
    \E p \in SeqProcs :
       /\ inv[p].op = "sync" /\ inv[p].pc = "ipWait"
       /\ inv[p].idx = 2 /\ inv[p].nIpPoll > 0
       /\ inv[p].rawVms[1].status = "stopped"
       /\ Len(inv[p].written) = 1
       /\ inv[p].written[1].attrs.ip = NullIp

\* the vmid the oldest stored version of a name holds
StoredFirst(name) == store["vm"][name][1].attrs.vmid

\* the VMs of a list that hold a given vmid
Holding(list, vmid) == {k \in 1..Len(list) : list[k].vmid = vmid}

\* what an invocation holds and has recorded: the vmid of the listed VM of its
\* name, not the vmid the store has for the name; the VM that took over the
\* old vmid is as it was
C33_HoldsListed ==
    \A p \in SeqProcs :
       LET i == inv[p]
       IN /\ \A k \in Holding(hv, StoredFirst("alpha")) : hv[k].name # "alpha" /\ hv[k].status = "running"
          /\ Holding(hv, StoredFirst("alpha")) # {}
          /\ (i.op \in NameAddressed /\ i.vm # NoVm) =>
                /\ i.vm.name = i.vmName
                /\ i.vm.vmid # StoredFirst(i.vmName)
                /\ \A n \in 1..Len(i.written) : i.written[n].attrs.vmid = i.vm.vmid

\* a request is sent for the vmid the hypervisor lists under the name
C33_TargetsListed ==
    \A p \in SeqProcs :
       LET i == inv[p]
           j == inv'[p]
       IN (j.op \in NameAddressed /\ nInv' = nInv /\ Mutations(j) > Mutations(i)) =>
             /\ j.vm = i.vm
             /\ \E k \in Matches(hv, i.vmName) : hv[k].vmid = i.vm.vmid

\* C33: lookup, start, stop, delete, setBootOrder and setConfig take the vmid
\* from the hypervisor's VM list in every invocation and never from a stored
\* version: after the VM of a name was deleted and a VM of that name made with
\* another vmid, the next operation on the name targets and records the new
\* vmid.
C33_VmidFromList == []C33_HoldsListed /\ [][C33_TargetsListed]_vars

\* a stop of the re-made VM: the store's only earlier version holds the old
\* vmid, the stop went to the new one and recorded it
C33_Witness ==
    \E p \in SeqProcs :
       /\ inv[p].op = "stop" /\ inv[p].pc = "done" /\ inv[p].nStop = 1
       /\ nInv = 1
       /\ Len(store["vm"]["alpha"]) = 2
       /\ store["vm"]["alpha"][1].attrs.status = "deleted"
       /\ store["vm"]["alpha"][2].attrs.vmid # store["vm"]["alpha"][1].attrs.vmid
       /\ store["vm"]["alpha"][2].attrs.vmid = inv[p].vm.vmid
       /\ HvStatus(hv, inv[p].vm.vmid) = "stopped"

ConfigOps == {"setBootOrder", "setConfig"}

\* setBootOrder and setConfig send nothing but their one PUT, and that only
\* for a VM they resolved
C34_OnePut ==
    \A p \in SeqProcs :
       LET i == inv[p]
       IN i.op \in ConfigOps =>
             /\ i.nStart = 0 /\ i.nStop = 0 /\ i.nCreate = 0 /\ i.nDelete = 0
             /\ i.nTaskPoll = 0 /\ i.nIpPoll = 0
             /\ i.nPut <= 1
             /\ i.pc \in {"auth", "list", "configPut", "write", "done", "failed"}
             /\ i.pc = "configPut" => i.nPut = 0 /\ i.vm.name = i.vmName
             /\ i.pc \in {"write", "done"} => i.nPut = 1

\* no step of setBootOrder or setConfig changes the VM list, and the PUT goes
\* to a vmid the hypervisor lists under the name
C34_ListUntouched ==
    \A p \in SeqProcs :
       (inv'[p].op \in ConfigOps /\ nInv' = nInv) =>
          /\ hv' = hv
          /\ inv'[p].nPut > inv[p].nPut => \E k \in Matches(hv, inv[p].vmName) : hv[k] = inv[p].vm

\* C34: setBootOrder and setConfig preserve the lifecycle state: each sends
\* exactly one config PUT for the resolved vmid and no start, stop, create or
\* delete request, so the VM is Stopped or Running on the hypervisor after the
\* operation as it was before.
C34_StatePreserving == []C34_OnePut /\ [][C34_ListUntouched]_vars

\* a setConfig of a running VM that has returned: one PUT, the VM running
C34_Witness ==
    \E p \in SeqProcs :
       /\ inv[p].op = "setConfig" /\ inv[p].pc = "done"
       /\ inv[p].nPut = 1 /\ Mutations(inv[p]) = 1
       /\ inv[p].vm.status = "running"
       /\ HvStatus(hv, inv[p].vm.vmid) = "running"

\* the versions, under any instance name of the node model, that hold a
\* session's ticket and token with the 2-hour lifetime
SessionVersions(session) ==
    {<<n, k>> \in Instances \X (1..(2 * MaxAuthOps + 2)) :
        /\ k <= Len(store["node"][n])
        /\ "ticket" \in DOMAIN store["node"][n][k].attrs
        /\ store["node"][n][k].attrs.ticket = session.ticket
        /\ store["node"][n][k].attrs.csrfToken = session.csrfToken
        /\ store["node"][n][k].lifetime = "2h"}

\* C35: whenever session resolution obtains a session through the credential
\* exchange (source "password"), also implicitly inside another operation
\* such as node status, the new session is persisted as a new version with a
\* 2-hour lifetime: an operation that has returned with such a session has
\* left a version holding it.
C35_ExchangePersisted ==
    \A p \in SeqProcs :
       (inv[p].pc = "done" /\ inv[p].session.source = "password") =>
          SessionVersions(inv[p].session) # {}

\* a start invocation that holds the VM resolveVm returned
StartHolds(i) == i.op = "start" /\ i.vm # NoVm

\* the start request of this invocation went out and its task exited "OK"
StartedHere(i) == i.nStart = 1 /\ i.task = "start" /\ i.taskResult.success

\* C36: start sends the start request if and only if the resolved status is
\* exactly "stopped"; for any other resolved status, one that is not
\* "running" included, it skips the request and goes straight to the IP wait;
\* the version it writes has status "running", and wasStarted true exactly
\* when the request was sent in this invocation and its task exited "OK".
C36_StartOnlyStopped ==
    \A p \in SeqProcs :
       LET i == inv[p]
       IN StartHolds(i) =>
             /\ i.nStart <= 1
             /\ i.nStart = 1 => i.vm.status = "stopped"
             /\ i.pc = "startReq" => i.vm.status = "stopped" /\ i.nStart = 0
             /\ (i.vm.status = "stopped" /\ i.pc \in {"task", "ipWait", "write", "done"}) => i.nStart = 1
             /\ i.vm.status # "stopped" =>
                   /\ i.nStart = 0 /\ i.nTaskPoll = 0 /\ ~i.wasStarted
                   /\ i.pc \in {"ipWait", "write", "done", "failed"}
                   /\ i.pc = "failed" => i.err.kind \in {"guest agent did not return an IP", "curl failed"}
             /\ i.pc \in {"ipWait", "write", "done"} => (i.wasStarted <=> StartedHere(i))
             /\ i.pc = "write" => i.out.status = "running" /\ (i.out.wasStarted <=> StartedHere(i))
             /\ \A n \in 1..Len(i.written) :
                   /\ i.written[n].attrs.status = "running"
                   /\ i.written[n].attrs.wasStarted <=> StartedHere(i)

\* a start of a paused VM that has returned: no request sent, the version
\* says "running" with wasStarted false, the VM is still paused
C36_Witness ==
    \E p \in SeqProcs :
       /\ inv[p].op = "start" /\ inv[p].pc = "done"
       /\ inv[p].vm.status = "paused"
       /\ inv[p].nStart = 0
       /\ Latest(inv[p]).attrs.status = "running"
       /\ ~Latest(inv[p]).attrs.wasStarted
       /\ HvStatus(hv, inv[p].vm.vmid) = "paused"

\* the status stop and delete record
RecordedStatus(op) == IF op = "stop" THEN "stopped" ELSE "deleted"

\* the invocation awaited no task (stop finding the VM stopped), or the task
\* of its own request exited "OK"
NoTaskOrOk(i) ==
    \/ i.op = "stop" /\ i.nStop = 0
    \/ i.task = i.op /\ i.exit = "OK"

\* C37: every version stop or delete writes has status "stopped"
\* respectively "deleted" whatever the task's outcome, and success true
\* exactly when no task was awaited (stop finding the VM stopped) or the
\* awaited stop or delete task exited "OK".
C37_StatusAndSuccess ==
    \A p \in SeqProcs :
       LET i == inv[p]
       IN i.op \in {"stop", "delete"} =>
             /\ i.pc = "write" =>
                   /\ i.out.status = RecordedStatus(i.op)
                   /\ i.out.success <=> NoTaskOrOk(i)
             /\ \A n \in 1..Len(i.written) :
                   /\ i.written[n].attrs.status = RecordedStatus(i.op)
                   /\ i.written[n].attrs.success <=> NoTaskOrOk(i)
                   /\ Latest(i).attrs.status = RecordedStatus(i.op)
                   /\ Latest(i).attrs.success <=> NoTaskOrOk(i)

\* a stop whose task exited with an error and that has returned: the version
\* says "stopped" with success false
C37_Witness ==
    \E p \in SeqProcs :
       /\ inv[p].op = "stop" /\ inv[p].pc = "done"
       /\ inv[p].nStop = 1 /\ inv[p].exit # "OK"
       /\ Latest(inv[p]).attrs.status = "stopped"
       /\ ~Latest(inv[p]).attrs.success

\* the attribute names of a version setBootOrder or setConfig writes
ConfigAttrs(op) == {"vmid", "vmName", "success"} \cup (IF op = "setBootOrder" THEN {"boot"} ELSE {"config"})

\* the versions stored under a VM name
VmVersions(name) == store["vm"][name]

StartRaised(i) ==
    /\ i.op = "start" /\ i.pc = "failed"
    /\ i.err.kind \in {"Failed to start VM", "VM start failed", "Task status check failed",
                       "curl failed", "guest agent did not return an IP"}

\* a start that ended with an error, or whose task ended with one, has
\* written nothing
C39_RaisedWroteNothing ==
    \A p \in SeqProcs :
       LET i == inv[p]
       IN /\ (i.op = "start" /\ i.pc = "failed") => i.written = <<>>
          /\ (i.op = "start" /\ i.nStart = 1 /\ TaskFailed(i)) => StartRaised(i)
          /\ (i.op = "start" /\ i.ipReturned = "null") => StartRaised(i)
          /\ (i.op = "start" /\ i.pc = "failed" /\ i.nStart = 1) => StartRaised(i)

\* the store changes under a start only with the write it returns from
C39_StoreKept ==
    \A p \in SeqProcs :
       (inv'[p].op = "start" /\ nInv' = nInv /\ inv'[p].pc # "done") => store' = store

\* C39: when start raises (start request non-2xx, start task not "OK", task
\* poll error, no IP within the wait window) it has written no version, so
\* the latest version of the name is the one from before the invocation, also
\* when the start request already took effect and the VM is Running on the
\* hypervisor.
C39_FailedStartWritesNothing == []C39_RaisedWroteNothing /\ [][C39_StoreKept]_vars

\* start raised for want of an address after its task exited "OK": the VM
\* runs, the store has nothing for the name
C39_Witness ==
    \E p \in SeqProcs :
       /\ StartRaised(inv[p])
       /\ inv[p].err.kind = "guest agent did not return an IP"
       /\ inv[p].nStart = 1 /\ inv[p].taskResult.success
       /\ HvStatus(hv, inv[p].vm.vmid) = "running"
       /\ inv[p].written = <<>>
       /\ nInv = 1 /\ VmVersions(inv[p].vmName) = <<>>

\* a recorded status agreeing with the VM list: "running" and "stopped" are
\* the status of the listed VM of that vmid, "deleted" means no VM has it
Agrees(attrs, list) ==
    /\ attrs.status = "running" => HvStatus(list, attrs.vmid) = "running"
    /\ attrs.status = "stopped" => HvStatus(list, attrs.vmid) = "stopped"
    /\ attrs.status = "deleted" => Holding(list, attrs.vmid) = {}

\* a lifecycle invocation that has returned without raising
Returned(i) == i.op \in LifecycleOps /\ i.pc = "done"

Vouched(i, attrs) ==
    /\ "success" \in DOMAIN attrs => attrs.success
    /\ i.op = "start" => i.vm.status \in {"stopped", "running"}

====
